---- MODULE Spec2Model ----
(***************************************************************************)
(* The event pipeline of bouncer: the debouncing file watcher              *)
(* (src/bouncer/watcher.py), the bounded event queue and the orchestrator  *)
(* (src/bouncer/core.py).                                                  *)
(*                                                                         *)
(* Time is an integer clock `now` (time.time()).  Paths are sequences of   *)
(* character codes, so that should_ignore is the substring test of the     *)
(* code.  Spec runs continuous mode with the default max_pending_changes,   *)
(* SpecStorm runs the notification callback alone on a pending set that a  *)
(* storm of creations has filled up to max_pending_changes - 1, SpecScan   *)
(* runs registration and one batch scan, one step per awaited plugin call, *)
(* SpecSelect runs one selection of the changed files from git, SpecIgnore *)
(* runs the watcher beside one selection, SpecDispatch runs continuous     *)
(* mode with the steps of the dispatch loop, SpecStop runs stop() beside   *)
(* the debounce loop with the durations of their sleeps, SpecRace runs the *)
(* callback between the steps of one sweep, SpecPathGuard runs the path    *)
(* validation of src/checks/tools.py and SpecHooks the hooks of            *)
(* src/hooks/manager.py.                                                   *)
(***************************************************************************)
EXTENDS Integers, Sequences, FiniteSets, TLC

(***************************************************************************)
(* Bounds of the model.                                                    *)
(***************************************************************************)
MaxTime == 3
EventQueueSizeCfg == 1
ResultsQueueSizeCfg == 1
ShortDebounceDelay == 1
LongPollInterval == 3
StormMaxPending == 10
StormLen == 4
MaxRegistrations == 3
MaxNotifiers == 2
MaxSinceLen == 2
MaxOutputLen == 4
MaxPathLen == 3
MaxRoots == 2
FileSizeLimit == 2
MaxHookPathLen == 1
MaxCommandLen == 2
MaxAuditEntries == 1

(***************************************************************************)
(* Program constants.                                                      *)
(***************************************************************************)
DEFAULT_MAX_PENDING_CHANGES == 10000
DefaultDebounceDelay == 2
DefaultPollInterval == 1   \* 0.5 s: the timed specification counts half seconds
StopSleep == 2             \* stop: await asyncio.sleep(1)

VARIABLES
    now,                  \* time.time()
    max_pending_changes,  \* FileWatcher.max_pending_changes
    debounce_delay,       \* FileWatcher.debounce_delay
    event_queue_size,     \* maxsize of BouncerOrchestrator.event_queue
    pending_changes,      \* FileWatcher.pending_changes, in OrderedDict order
    event_queue,          \* BouncerOrchestrator.event_queue
    running,              \* BouncerOrchestrator.running
    watcher_pc,           \* position of FileWatcher.start
    last_notification,    \* history: per path, the last accepted raw notification
    settled_events,       \* history: per path, the events settled since then
    lost,                 \* history: per path, "evicted" or "dropped" since then
    last_evicted,         \* history: the entries the last callback evicted
    bouncers,             \* BouncerOrchestrator.bouncers: the names, in dict order
    registered,           \* history: the names register_bouncer was called with
    notifiers,            \* BouncerOrchestrator.notifiers
    integration_actions,  \* BouncerOrchestrator.integration_actions is set
    mcp_config,           \* the integrations MCPManager enables, and their flags
    listing,              \* what the file lister returns for target_dir
    scan_pc,              \* position of BouncerOrchestrator.scan
    files,                \* scan: files
    file_idx,             \* scan: index of file_path in files
    all_results,          \* scan: all_results
    total_issues,         \* scan: total_issues
    total_fixes,          \* scan: total_fixes
    summary,              \* scan: the dictionary returned, once returned
    pe_pc,                \* position of BouncerOrchestrator.process_event
    pe_event,             \* process_event: event
    pe_i,                 \* process_event: index of the bouncer in self.bouncers
    results,              \* process_event: results
    pe_j,                 \* _notify: index of the notifier in self.notifiers
    pe_k,                 \* _handle_integrations: index of result in results
    pe_a,                 \* _handle_integrations: the next action for that result
    pe_error,             \* the call whose exception left process_event
    should_outcome,       \* history: per bouncer, what should_check did
    check_outcome,        \* history: per bouncer, what check did
    notify_log,           \* history: the notify calls made for the event
    integration_log,      \* history: the integration actions awaited for the event
    since,                \* scan's argument since (<<>> is None)
    git_output,           \* what git prints for the repository when it succeeds
    sel_pc,               \* position of _get_git_changed_files
    git_cmd,              \* the git command line run, once run
    git_outcome,          \* how subprocess.run ended
    stdout,               \* result.stdout, when git succeeded
    selected,             \* the list _get_git_changed_files returned
    loop_pc,              \* position of event_processor_loop
    loop_event,           \* event_processor_loop: event
    dequeued_after_stop,  \* history: an event left the queue after stop()
    results_queue_size,   \* maxsize of BouncerOrchestrator.results_queue
    results_queue,        \* BouncerOrchestrator.results_queue
    undone_gets,          \* event_queue: the events got whose task_done() is due
    poll_interval,        \* FileWatcher.poll_interval
    sleep_until,          \* the time asyncio.sleep(self.poll_interval) ends
    stop_pc,              \* position of BouncerOrchestrator.stop
    stop_until,           \* the time stop's asyncio.sleep(1) ends
    sweep_time,           \* the debounce loop: current_time
    sweep_items,          \* the debounce loop: list(self.pending_changes.items())
    sweep_i,              \* the debounce loop: index of (path, info) in that list
    sweep_out,            \* the debounce loop: to_process
    allowed_directories,  \* checks.tools._allowed_directories
    guard_call,           \* validate_file_path: file_path, and the call's outcome
    hooks_config,         \* HooksManager.config
    hook_call,            \* a hook: input_data, and the last call's outcome
    audit_log             \* the entries of the audit file

watcher_vars == <<now, max_pending_changes, debounce_delay, event_queue_size,
                  pending_changes, event_queue, running, watcher_pc,
                  last_notification, settled_events, lost, last_evicted>>

config_vars == <<bouncers, registered, notifiers, integration_actions, mcp_config,
                 listing>>

scan_vars == <<scan_pc, files, file_idx, all_results, total_issues, total_fixes,
               summary>>

pe_vars == <<pe_pc, pe_event, pe_i, results, pe_j, pe_k, pe_a, pe_error,
             should_outcome, check_outcome, notify_log, integration_log>>

select_vars == <<since, git_output, sel_pc, git_cmd, git_outcome, stdout, selected>>

dispatch_vars == <<loop_pc, loop_event, dequeued_after_stop, results_queue_size,
                   results_queue, undone_gets>>

timer_vars == <<poll_interval, sleep_until, stop_pc, stop_until>>

sweep_vars == <<sweep_time, sweep_items, sweep_i, sweep_out>>

thread_vars == <<timer_vars, sweep_vars>>

guard_vars == <<allowed_directories, guard_call>>

hook_vars == <<hooks_config, hook_call, audit_log>>

tool_vars == <<guard_vars, hook_vars>>

orchestrator_vars == <<config_vars, scan_vars, pe_vars, select_vars, dispatch_vars,
                       thread_vars, tool_vars>>

vars == <<watcher_vars, orchestrator_vars>>

EventTypes == {"created", "modified", "deleted"}
StormTypes == {"created", "modified"}

(***************************************************************************)
(* Paths.  Character code 0 stands for the ignored directory name, the     *)
(* codes 1.. for file names.                                               *)
(***************************************************************************)
FilePath(i) == <<i>>
IgnoredPath == <<0, 1>>
WatchPaths == {FilePath(1), FilePath(2), IgnoredPath}
StormPaths == {FilePath(i) : i \in 1..(StormMaxPending + 1)}
ignore_patterns == {<<0>>}

\* `pattern in path_str`
IsSubstring(pattern, str) ==
    \E k \in 0..(Len(str) - Len(pattern)) :
        \A j \in 1..Len(pattern) : str[k + j] = pattern[j]

\* variant: only a path that is a pattern is ignored
ShouldIgnoreExact(path) == path \in ignore_patterns

should_ignore(path) ==
    \E pattern \in ignore_patterns : IsSubstring(pattern, path)

(***************************************************************************)
(* Sequence helpers.                                                       *)
(***************************************************************************)
Range(s) == {s[i] : i \in 1..Len(s)}

RECURSIVE DropFirst(_, _)
DropFirst(s, n) == IF n = 0 \/ s = <<>> THEN s ELSE DropFirst(Tail(s), n - 1)

PathsOf(s) == {s[i].path : i \in 1..Len(s)}

IsPending(path) == path \in PathsOf(pending_changes)

PendingInfo(path) ==
    LET i == CHOOSE i \in 1..Len(pending_changes) : pending_changes[i].path = path
    IN  pending_changes[i]

(***************************************************************************)
(* ChangeHandler._handle_change (watcher.py 63-86)                         *)
(***************************************************************************)
\* evict_count = max_pending_changes // 10
EvictCount(max_pending) == max_pending \div 10

\* variant: the newest entries go
EvictNewest(pending, max_pending) ==
    IF Len(pending) >= max_pending
    THEN SubSeq(pending, 1, Len(pending) - EvictCount(max_pending))
    ELSE pending

\* for _ in range(evict_count): if pending: del pending[next(iter(pending))]
EvictOldest(pending, max_pending) ==
    IF Len(pending) >= max_pending
    THEN DropFirst(pending, EvictCount(max_pending))
    ELSE pending

\* variant: an entry that exists keeps the kind of its first notification
UpdatePendingFirstKind(pending, path, event_type, t) ==
    Append(SelectSeq(pending, LAMBDA e : e.path # path),
           [path |-> path, timestamp |-> t,
            event_type |-> IF path \in PathsOf(pending)
                           THEN (CHOOSE e \in Range(pending) : e.path = path).event_type
                           ELSE event_type])

\* variant: an entry that exists keeps the time of its first notification
UpdatePendingFirstTime(pending, path, event_type, t) ==
    IF path \in PathsOf(pending)
    THEN [i \in 1..Len(pending) |->
             IF pending[i].path = path
             THEN [pending[i] EXCEPT !.event_type = event_type]
             ELSE pending[i]]
    ELSE Append(pending, [path |-> path, timestamp |-> t, event_type |-> event_type])

\* if path in pending: move_to_end(path); pending[path] = {timestamp, event_type}
UpdatePending(pending, path, event_type, t) ==
    Append(SelectSeq(pending, LAMBDA e : e.path # path),
           [path |-> path, timestamp |-> t, event_type |-> event_type])

handle_change(path, event_type) ==
    /\ watcher_pc \in {"check", "sleep", "scan"}  \* the observer is started
    /\ IF should_ignore(path)
       THEN UNCHANGED <<pending_changes, last_notification, settled_events, lost,
                        last_evicted>>
       ELSE LET kept == EvictOldest(pending_changes, max_pending_changes)
                gone == PathsOf(pending_changes) \ PathsOf(kept)
            IN  /\ pending_changes' = UpdatePending(kept, path, event_type, now)
                /\ last_notification' =
                       [last_notification EXCEPT
                           ![path] = <<[event_type |-> event_type, timestamp |-> now,
                                        since |-> IF path \in PathsOf(kept)
                                                  THEN last_notification[path][1].since
                                                  ELSE now]>>]
                /\ settled_events' = [settled_events EXCEPT ![path] = <<>>]
                /\ lost' = [p \in DOMAIN lost |->
                               IF p = path THEN "no"
                               ELSE IF p \in gone THEN "evicted" ELSE lost[p]]
                /\ last_evicted' =
                       SelectSeq(pending_changes, LAMBDA e : e \notin Range(kept))
    /\ UNCHANGED <<max_pending_changes, debounce_delay, event_queue_size,
                   event_queue, running, watcher_pc>>
    /\ UNCHANGED orchestrator_vars

\* a raw notification from the observer (on_created, on_modified, on_deleted)
HandleChange ==
    /\ \E path \in WatchPaths, event_type \in EventTypes :
           handle_change(path, event_type)
    /\ UNCHANGED now

\* on_modified of a file: _handle_change(event.src_path, 'modified')
OnModified ==
    /\ \E path \in WatchPaths : handle_change(path, "modified")
    /\ UNCHANGED now

\* a storm: notifications for many distinct paths, the clock moving on between them
StormChange ==
    /\ now < StormLen
    /\ \E path \in StormPaths, event_type \in StormTypes :
           handle_change(path, event_type)
    /\ now' = now + 1

(***************************************************************************)
(* FileWatcher.start: the debounce loop (watcher.py 100-131)               *)
(***************************************************************************)
\* current_time - info['timestamp'] >= self.debounce_delay
IsSettled(current_time, info, delay) == current_time - info.timestamp >= delay

\* to_process: the entries of list(pending_changes.items()) that have settled
ToProcess(pending, current_time, delay) ==
    SelectSeq(pending, LAMBDA e : IsSettled(current_time, e, delay))

\* del self.pending_changes[path] for each of them
DelSettled(pending, to_process) ==
    SelectSeq(pending, LAMBDA e : e.path \notin PathsOf(to_process))

\* FileChangeEvent(path, event_type=info['event_type'], timestamp=info['timestamp'])
SettledEvent(info) ==
    [path |-> info.path, event_type |-> info.event_type, timestamp |-> info.timestamp]

\* variant: every settled event is put, whatever the queue holds
PutAllUnbounded(queue, events, maxsize) == queue \o events

\* put_nowait of each settled event in turn; asyncio.QueueFull drops the event
RECURSIVE PutAllNowait(_, _, _)
PutAllNowait(queue, events, maxsize) ==
    IF events = <<>> THEN queue
    ELSE IF Len(queue) >= maxsize
         THEN PutAllNowait(queue, Tail(events), maxsize)
         ELSE PutAllNowait(Append(queue, Head(events)), Tail(events), maxsize)

\* while self.orchestrator.running: -> await asyncio.sleep / finally: observer.stop()
WatcherLoopTest ==
    /\ watcher_pc = "check"
    /\ watcher_pc' = IF running THEN "sleep" ELSE "done"
    /\ UNCHANGED <<now, max_pending_changes, debounce_delay, event_queue_size,
                   pending_changes, event_queue, running, last_notification,
                   settled_events, lost, last_evicted>>
    /\ UNCHANGED orchestrator_vars

\* one pass of the loop body after the sleep: lines 105-126
Sweep ==
    /\ watcher_pc = "sleep"
    /\ LET current_time == now
           to_process == ToProcess(pending_changes, current_time, debounce_delay)
           events == [i \in 1..Len(to_process) |-> SettledEvent(to_process[i])]
           queue == PutAllNowait(event_queue, events, event_queue_size)
           queued == SubSeq(queue, Len(event_queue) + 1, Len(queue))
           dropped == PathsOf(events) \ PathsOf(queued)
       IN  /\ pending_changes' =
                  SelectSeq(pending_changes,
                      LAMBDA e : ~IsSettled(current_time, e, debounce_delay))
           /\ event_queue' = queue
           /\ settled_events' =
                  [p \in DOMAIN settled_events |->
                      IF p \in PathsOf(queued) /\ Len(settled_events[p]) < 2
                      THEN Append(settled_events[p],
                               CHOOSE e \in Range(queued) : e.path = p)
                      ELSE settled_events[p]]
           /\ lost' = [p \in DOMAIN lost |->
                          IF p \in dropped THEN "dropped" ELSE lost[p]]
    /\ watcher_pc' = "check"
    /\ UNCHANGED <<now, max_pending_changes, debounce_delay, event_queue_size,
                   running, last_notification, last_evicted>>
    /\ UNCHANGED orchestrator_vars

(***************************************************************************)
(* The same loop body in the steps between which the observer's thread can *)
(* run the callback: the snapshot list(self.pending_changes.items()), one  *)
(* turn of the for loop per step, and the queueing of to_process.          *)
(***************************************************************************)
\* current_time = time.time(); to_process = []; list(pending_changes.items())
SweepSnapshot ==
    /\ watcher_pc = "sleep"
    /\ sweep_time' = now
    /\ sweep_items' = pending_changes
    /\ sweep_i' = 1
    /\ sweep_out' = <<>>
    /\ watcher_pc' = "scan"
    /\ UNCHANGED <<now, max_pending_changes, debounce_delay, event_queue_size,
                   pending_changes, event_queue, running, last_notification,
                   settled_events, lost, last_evicted>>
    /\ UNCHANGED <<config_vars, scan_vars, pe_vars, select_vars, dispatch_vars,
                   timer_vars, tool_vars>>

\* one turn of `for path, info in ...`: if settled, to_process.append((path, info))
\* and del self.pending_changes[path]; a KeyError of the del leaves the loop
\* through the finally
SweepEntry ==
    /\ watcher_pc = "scan"
    /\ sweep_i <= Len(sweep_items)
    /\ LET info == sweep_items[sweep_i]
       IN  IF ~IsSettled(sweep_time, info, debounce_delay)
           THEN /\ sweep_i' = sweep_i + 1
                /\ UNCHANGED <<pending_changes, sweep_out, watcher_pc>>
           ELSE /\ sweep_out' = Append(sweep_out, info)
                /\ IF IsPending(info.path)
                   THEN /\ pending_changes' =
                               SelectSeq(pending_changes,
                                   LAMBDA e : e.path # info.path)
                        /\ sweep_i' = sweep_i + 1
                        /\ watcher_pc' = watcher_pc
                   ELSE /\ watcher_pc' = "raised"
                        /\ UNCHANGED <<pending_changes, sweep_i>>
    /\ UNCHANGED <<sweep_time, sweep_items>>
    /\ UNCHANGED <<now, max_pending_changes, debounce_delay, event_queue_size,
                   event_queue, running, last_notification, settled_events, lost,
                   last_evicted>>
    /\ UNCHANGED <<config_vars, scan_vars, pe_vars, select_vars, dispatch_vars,
                   timer_vars, tool_vars>>

\* for path, info in to_process: put_nowait(FileChangeEvent(...))
SweepPut ==
    /\ watcher_pc = "scan"
    /\ sweep_i > Len(sweep_items)
    /\ LET events == [i \in 1..Len(sweep_out) |-> SettledEvent(sweep_out[i])]
           queue == PutAllNowait(event_queue, events, event_queue_size)
           queued == SubSeq(queue, Len(event_queue) + 1, Len(queue))
           dropped == PathsOf(events) \ PathsOf(queued)
       IN  /\ event_queue' = queue
           /\ settled_events' =
                  [p \in DOMAIN settled_events |->
                      IF p \in PathsOf(queued) /\ Len(settled_events[p]) < 2
                      THEN Append(settled_events[p],
                               CHOOSE e \in Range(queued) : e.path = p)
                      ELSE settled_events[p]]
           /\ lost' = [p \in DOMAIN lost |->
                          IF p \in dropped THEN "dropped" ELSE lost[p]]
    /\ watcher_pc' = "check"
    /\ UNCHANGED <<now, max_pending_changes, debounce_delay, event_queue_size,
                   pending_changes, running, last_notification, last_evicted>>
    /\ UNCHANGED <<config_vars, scan_vars, pe_vars, select_vars, dispatch_vars,
                   thread_vars, tool_vars>>

(***************************************************************************)
(* BouncerOrchestrator.start / stop (core.py 306-329) and the consumer     *)
(***************************************************************************)
\* self.running = True; the processor and watcher tasks are created
Start ==
    /\ watcher_pc = "init"
    /\ ~running
    /\ running' = TRUE
    /\ watcher_pc' = "check"
    /\ UNCHANGED <<now, max_pending_changes, debounce_delay, event_queue_size,
                   pending_changes, event_queue, last_notification,
                   settled_events, lost, last_evicted>>
    /\ UNCHANGED orchestrator_vars

\* self.running = False
Stop ==
    /\ running
    /\ running' = FALSE
    /\ UNCHANGED <<now, max_pending_changes, debounce_delay, event_queue_size,
                   pending_changes, event_queue, watcher_pc, last_notification,
                   settled_events, lost, last_evicted>>
    /\ UNCHANGED orchestrator_vars

\* event = await asyncio.wait_for(self.event_queue.get(), timeout=1.0)
ProcessorGet ==
    /\ running
    /\ event_queue # <<>>
    /\ event_queue' = Tail(event_queue)
    /\ UNCHANGED <<now, max_pending_changes, debounce_delay, event_queue_size,
                   pending_changes, running, watcher_pc, last_notification,
                   settled_events, lost, last_evicted>>
    /\ UNCHANGED orchestrator_vars

\* the clock
Tick ==
    /\ now < MaxTime
    /\ now' = now + 1
    /\ UNCHANGED <<max_pending_changes, debounce_delay, event_queue_size,
                   pending_changes, event_queue, running, watcher_pc,
                   last_notification, settled_events, lost, last_evicted>>
    /\ UNCHANGED orchestrator_vars

(***************************************************************************)
(* stop() beside the debounce loop, with the durations of the two sleeps   *)
(* (core.py 324-329, watcher.py 102-131).  The clock counts half seconds.  *)
(* A step that does not wait is taken before the clock moves on, and a     *)
(* sleep ends when its time has come.                                      *)
(***************************************************************************)
\* while self.orchestrator.running: await asyncio.sleep(self.poll_interval);
\* after the loop, finally: observer.stop(); observer.join()
WatcherLoopSleep ==
    /\ watcher_pc = "check"
    /\ IF running
       THEN watcher_pc' = "sleep" /\ sleep_until' = now + poll_interval
       ELSE watcher_pc' = "done" /\ sleep_until' = sleep_until
    /\ UNCHANGED <<poll_interval, stop_pc, stop_until, sweep_vars>>
    /\ UNCHANGED <<now, max_pending_changes, debounce_delay, event_queue_size,
                   pending_changes, event_queue, running, last_notification,
                   settled_events, lost, last_evicted>>
    /\ UNCHANGED <<config_vars, scan_vars, pe_vars, select_vars, dispatch_vars,
                   tool_vars>>

\* the sleep has ended: the loop body of lines 105-126
SweepAfterSleep ==
    /\ now >= sleep_until
    /\ Sweep

\* stop(): self.running = False; await asyncio.sleep(1)
StopCall ==
    /\ running
    /\ stop_pc = "idle"
    /\ running' = FALSE
    /\ stop_pc' = "sleeping"
    /\ stop_until' = now + StopSleep
    /\ UNCHANGED <<poll_interval, sleep_until, sweep_vars>>
    /\ UNCHANGED <<now, max_pending_changes, debounce_delay, event_queue_size,
                   pending_changes, event_queue, watcher_pc, last_notification,
                   settled_events, lost, last_evicted>>
    /\ UNCHANGED <<config_vars, scan_vars, pe_vars, select_vars, dispatch_vars,
                   tool_vars>>

\* stop(): the sleep has ended, stop returns
StopReturn ==
    /\ stop_pc = "sleeping"
    /\ now >= stop_until
    /\ stop_pc' = "returned"
    /\ UNCHANGED <<poll_interval, sleep_until, stop_until, sweep_vars>>
    /\ UNCHANGED <<watcher_vars, config_vars, scan_vars, pe_vars, select_vars,
                   dispatch_vars, tool_vars>>

\* the clock, while nothing is due
TimedTick ==
    /\ watcher_pc # "check"
    /\ watcher_pc = "sleep" => now < sleep_until
    /\ stop_pc = "sleeping" => now < stop_until
    /\ Tick

\* observer.stop() and observer.join() have been called
ObserverStopped == watcher_pc = "done"

(***************************************************************************)
(* BouncerOrchestrator: registration (core.py 112-123)                     *)
(***************************************************************************)
BouncerNames == {"quality", "security"}
NotifierNames == <<"slack", "file">>
ScanFiles == <<FilePath(1), FilePath(2)>>
IssueCounts == {0, 1}
FixCounts == {0, 1}

\* self.bouncers[name] = bouncer: a dict keeps the place of a key it holds
DictSet(keys, name) == IF name \in Range(keys) THEN keys ELSE Append(keys, name)

RegisterBouncer ==
    /\ scan_pc = "idle"
    /\ Len(registered) < MaxRegistrations
    /\ \E name \in BouncerNames :
           /\ bouncers' = DictSet(bouncers, name)
           /\ registered' = Append(registered, name)
    /\ UNCHANGED <<notifiers, integration_actions, mcp_config, listing>>
    /\ UNCHANGED <<scan_vars, pe_vars, watcher_vars, select_vars,
                   dispatch_vars, thread_vars, tool_vars>>

\* self.notifiers.append(notifier)
RegisterNotifier ==
    /\ scan_pc = "idle"
    /\ Len(notifiers) < MaxNotifiers
    /\ Len(notifiers) < Len(NotifierNames)
    /\ notifiers' = Append(notifiers, NotifierNames[Len(notifiers) + 1])
    /\ UNCHANGED <<bouncers, registered, integration_actions, mcp_config, listing>>
    /\ UNCHANGED <<scan_vars, pe_vars, watcher_vars, select_vars,
                   dispatch_vars, thread_vars, tool_vars>>

(***************************************************************************)
(* BouncerOrchestrator.process_event (core.py 125-164)                     *)
(***************************************************************************)
\* after the notifiers: if self.integration_actions: ...; return results
PcAfterNotifiers(j) ==
    IF j <= Len(notifiers) THEN "notify"
    ELSE IF integration_actions THEN "integrations" ELSE "returned"

\* after the loop over self.bouncers.items(): await self._notify(event, results)
PcAfterBouncers(i) ==
    IF i <= Len(bouncers) THEN "bouncers" ELSE PcAfterNotifiers(1)

NoOutcomes == [i \in 1..Len(bouncers) |-> "none"]

\* the call of process_event(event)
EnterProcessEvent(event) ==
    /\ pe_event' = <<event>>
    /\ pe_i' = 1
    /\ results' = <<>>
    /\ pe_j' = 1
    /\ pe_k' = 1
    /\ pe_a' = 1
    /\ pe_error' = "none"
    /\ should_outcome' = NoOutcomes
    /\ check_outcome' = NoOutcomes
    /\ notify_log' = <<>>
    /\ integration_log' = <<>>
    /\ pe_pc' = PcAfterBouncers(1)

\* if await bouncer.should_check(event):  (line 137, outside any try)
ShouldCheck ==
    /\ pe_pc = "bouncers"
    /\ \E outcome \in {"true", "false", "raise"} :
           /\ should_outcome' = [should_outcome EXCEPT ![pe_i] = outcome]
           /\ CASE outcome = "true" ->
                     pe_pc' = "check" /\ pe_i' = pe_i /\ pe_error' = pe_error
                [] outcome = "false" ->
                     /\ pe_pc' = PcAfterBouncers(pe_i + 1)
                     /\ pe_i' = pe_i + 1
                     /\ pe_error' = pe_error
                [] outcome = "raise" ->
                     pe_pc' = "raised" /\ pe_i' = pe_i /\ pe_error' = "should_check"
    /\ UNCHANGED <<integration_log, pe_event, results, pe_j, pe_k, pe_a,
                   check_outcome, notify_log>>
    /\ UNCHANGED <<config_vars, scan_vars, watcher_vars, select_vars,
                   dispatch_vars, thread_vars, tool_vars>>

\* BouncerResult(bouncer_name, file_path, ..., issues_found, fixes_applied, ...)
BouncerResult(name, path, issues, fixes) ==
    [bouncer_name |-> name, file_path |-> path,
     issues_found |-> issues, fixes_applied |-> fixes]

\* variant: the exception of check leaves process_event
CheckUnguarded ==
    /\ pe_pc = "check"
    /\ \/ \E issues \in IssueCounts, fixes \in FixCounts :
              /\ results' = Append(results,
                     BouncerResult(bouncers[pe_i], pe_event[1].path, issues, fixes))
              /\ check_outcome' = [check_outcome EXCEPT ![pe_i] = "ok"]
              /\ pe_i' = pe_i + 1
              /\ pe_pc' = PcAfterBouncers(pe_i + 1)
              /\ pe_error' = pe_error
       \/ /\ check_outcome' = [check_outcome EXCEPT ![pe_i] = "raise"]
          /\ pe_pc' = "raised"
          /\ pe_error' = "check"
          /\ UNCHANGED <<results, pe_i>>
    /\ UNCHANGED <<integration_log, pe_event, pe_j, pe_k, pe_a,
                   should_outcome, notify_log>>
    /\ UNCHANGED <<config_vars, scan_vars, watcher_vars, select_vars,
                   dispatch_vars, thread_vars, tool_vars>>

\* variant: the newest result goes to the front of results
CheckPrepending ==
    /\ pe_pc = "check"
    /\ \/ \E issues \in IssueCounts, fixes \in FixCounts :
              /\ results' = <<BouncerResult(bouncers[pe_i], pe_event[1].path,
                                            issues, fixes)>> \o results
              /\ check_outcome' = [check_outcome EXCEPT ![pe_i] = "ok"]
       \/ /\ check_outcome' = [check_outcome EXCEPT ![pe_i] = "raise"]
          /\ UNCHANGED results
    /\ pe_i' = pe_i + 1
    /\ pe_pc' = PcAfterBouncers(pe_i + 1)
    /\ UNCHANGED <<integration_log, pe_event, pe_j, pe_k, pe_a, pe_error,
                   should_outcome, notify_log>>
    /\ UNCHANGED <<config_vars, scan_vars, watcher_vars, select_vars,
                   dispatch_vars, thread_vars, tool_vars>>

\* try: result = await bouncer.check(event); results.append(result)
\* except Exception as e: logger.error(...)
Check ==
    /\ pe_pc = "check"
    /\ \/ \E issues \in IssueCounts, fixes \in FixCounts :
              /\ results' = Append(results,
                     BouncerResult(bouncers[pe_i], pe_event[1].path, issues, fixes))
              /\ check_outcome' = [check_outcome EXCEPT ![pe_i] = "ok"]
       \/ /\ check_outcome' = [check_outcome EXCEPT ![pe_i] = "raise"]
          /\ UNCHANGED results
    /\ pe_i' = pe_i + 1
    /\ pe_pc' = PcAfterBouncers(pe_i + 1)
    /\ UNCHANGED <<integration_log, pe_event, pe_j, pe_k, pe_a, pe_error,
                   should_outcome, notify_log>>
    /\ UNCHANGED <<config_vars, scan_vars, watcher_vars, select_vars,
                   dispatch_vars, thread_vars, tool_vars>>

(***************************************************************************)
(* BouncerOrchestrator._notify (core.py 166-172)                           *)
(***************************************************************************)
\* variant: the exception of a notifier leaves _notify
NotifyUnguarded ==
    /\ pe_pc = "notify"
    /\ \E outcome \in {"ok", "raise"} :
           /\ notify_log' = Append(notify_log,
                  [notifier |-> notifiers[pe_j], event |-> pe_event[1],
                   results |-> results, outcome |-> outcome])
           /\ IF outcome = "ok"
              THEN /\ pe_j' = pe_j + 1
                   /\ pe_pc' = PcAfterNotifiers(pe_j + 1)
                   /\ pe_error' = pe_error
              ELSE /\ pe_j' = pe_j
                   /\ pe_pc' = "raised"
                   /\ pe_error' = "notify"
    /\ UNCHANGED <<integration_log, pe_event, pe_i, results, pe_k, pe_a,
                   should_outcome, check_outcome>>
    /\ UNCHANGED <<config_vars, scan_vars, watcher_vars, select_vars,
                   dispatch_vars, thread_vars, tool_vars>>

\* try: await notifier.notify(event, results) / except Exception: logger.error
Notify ==
    /\ pe_pc = "notify"
    /\ \E outcome \in {"ok", "raise"} :
           notify_log' = Append(notify_log,
               [notifier |-> notifiers[pe_j], event |-> pe_event[1],
                results |-> results, outcome |-> outcome])
    /\ pe_j' = pe_j + 1
    /\ pe_pc' = PcAfterNotifiers(pe_j + 1)
    /\ UNCHANGED <<integration_log, pe_event, pe_i, results, pe_k, pe_a,
                   pe_error, should_outcome,
                   check_outcome>>
    /\ UNCHANGED <<config_vars, scan_vars, watcher_vars, select_vars,
                   dispatch_vars, thread_vars, tool_vars>>

(***************************************************************************)
(* BouncerOrchestrator._handle_integrations (core.py 174-274)              *)
(***************************************************************************)
\* the calls of one pass of the loop body, in the order of the code
IntegrationTable ==
    << [provider |-> "github", flag |-> "auto_create_pr",     needs |-> "fixes"],
       [provider |-> "github", flag |-> "auto_create_issue",  needs |-> "issues"],
       [provider |-> "gitlab", flag |-> "auto_create_mr",     needs |-> "fixes"],
       [provider |-> "gitlab", flag |-> "auto_create_issue",  needs |-> "issues"],
       [provider |-> "linear", flag |-> "auto_create_issue",  needs |-> "issues"],
       [provider |-> "jira",   flag |-> "auto_create_ticket", needs |-> "issues"] >>

NoIntegrations == [enabled |-> {}, auto |-> {}]

McpConfigs ==
    { [enabled |-> {"github"},
       auto |-> {<<"github", "auto_create_pr">>, <<"github", "auto_create_issue">>}],
      [enabled |-> {"github", "jira"},
       auto |-> {<<"github", "auto_create_pr">>, <<"jira", "auto_create_ticket">>,
                 <<"gitlab", "auto_create_mr">>}] }

\* is_integration_enabled(provider) and config.get(flag, False) and result.<needs>
Applicable(result, a) ==
    LET row == IntegrationTable[a]
    IN  /\ row.provider \in mcp_config.enabled
        /\ <<row.provider, row.flag>> \in mcp_config.auto
        /\ IF row.needs = "fixes" THEN result.fixes_applied > 0
                                  ELSE result.issues_found > 0

\* the next call the loops reach from result k, action a; <<>> when there is none
RECURSIVE NextCall(_, _)
NextCall(k, a) ==
    IF k > Len(results) THEN <<>>
    ELSE IF a > Len(IntegrationTable) THEN NextCall(k + 1, 1)
    ELSE IF Applicable(results[k], a) THEN <<k, a>>
    ELSE NextCall(k, a + 1)

\* one awaited create_* call.  It returns a dictionary, whose 'success' is only
\* logged, or raises; except Exception: logger.error, on to the next result
IntegrationCall ==
    /\ pe_pc = "integrations"
    /\ NextCall(pe_k, pe_a) # <<>>
    /\ LET call == NextCall(pe_k, pe_a)
       IN  \E outcome \in {"returned", "raise"} :
               /\ integration_log' = Append(integration_log,
                      [result |-> call[1], action |-> call[2], outcome |-> outcome])
               /\ IF outcome = "raise"
                  THEN pe_k' = call[1] + 1 /\ pe_a' = 1
                  ELSE pe_k' = call[1] /\ pe_a' = call[2] + 1
    /\ UNCHANGED <<pe_pc, pe_event, pe_i, results, pe_j, pe_error, should_outcome,
                   check_outcome, notify_log>>
    /\ UNCHANGED <<config_vars, scan_vars, watcher_vars, select_vars,
                   dispatch_vars, thread_vars, tool_vars>>

\* the loop over results is over; return results
IntegrationsReturn ==
    /\ pe_pc = "integrations"
    /\ NextCall(pe_k, pe_a) = <<>>
    /\ pe_pc' = "returned"
    /\ UNCHANGED <<integration_log, pe_event, pe_i, results, pe_j, pe_k,
                   pe_a, pe_error,
                   should_outcome, check_outcome, notify_log>>
    /\ UNCHANGED <<config_vars, scan_vars, watcher_vars, select_vars,
                   dispatch_vars, thread_vars, tool_vars>>

(***************************************************************************)
(* BouncerOrchestrator.scan (core.py 331-404)                              *)
(***************************************************************************)
Summary(n, issues, fixes, res) ==
    [status |-> "success", files_scanned |-> n, issues_found |-> issues,
     fixes_applied |-> fixes, results |-> res]

\* variant: no early return for an empty file list
ScanStartNoEarlyReturn ==
    /\ scan_pc = "idle"
    /\ files' = listing
    /\ scan_pc' = "files"
    /\ file_idx' = 1
    /\ all_results' = <<>>
    /\ total_issues' = 0
    /\ total_fixes' = 0
    /\ UNCHANGED summary
    /\ UNCHANGED <<config_vars, pe_vars, watcher_vars, select_vars,
                   dispatch_vars, thread_vars, tool_vars>>

\* files = await self._get_all_files(target_dir); if not files: return {...}
ScanStart ==
    /\ scan_pc = "idle"
    /\ files' = listing
    /\ IF listing = <<>>
       THEN /\ summary' = <<Summary(0, 0, 0, <<>>)>>
            /\ scan_pc' = "done"
       ELSE /\ summary' = summary
            /\ scan_pc' = "files"
    /\ file_idx' = 1
    /\ all_results' = <<>>
    /\ total_issues' = 0
    /\ total_fixes' = 0
    /\ UNCHANGED <<config_vars, pe_vars, watcher_vars, select_vars,
                   dispatch_vars, thread_vars, tool_vars>>

\* event = FileChangeEvent(path=file_path, event_type='modified', ...)
\* results = await self.process_event(event)
ScanProcessFile ==
    /\ scan_pc = "files"
    /\ pe_pc = "idle"
    /\ file_idx <= Len(files)
    /\ EnterProcessEvent([path |-> files[file_idx], event_type |-> "modified",
                          timestamp |-> now, metadata |-> "scan_mode=batch"])
    /\ UNCHANGED <<config_vars, scan_vars, watcher_vars, select_vars,
                   dispatch_vars, thread_vars, tool_vars>>

\* variant: only the first result of an event is counted
SumOfFirst(res, field) == IF res = <<>> THEN 0 ELSE Head(res)[field]

RECURSIVE SumOf(_, _)
SumOf(res, field) ==
    IF res = <<>> THEN 0 ELSE Head(res)[field] + SumOf(Tail(res), field)

\* all_results.extend(results); the counts; after the last file: return summary
ScanCollect ==
    /\ scan_pc = "files"
    /\ pe_pc = "returned"
    /\ pe_pc' = "idle"
    /\ all_results' = all_results \o results
    /\ total_issues' = total_issues + SumOf(results, "issues_found")
    /\ total_fixes' = total_fixes + SumOf(results, "fixes_applied")
    /\ file_idx' = file_idx + 1
    /\ IF file_idx + 1 > Len(files)
       THEN /\ summary' = <<Summary(Len(files), total_issues', total_fixes',
                                    all_results')>>
            /\ scan_pc' = "done"
       ELSE /\ summary' = summary
            /\ scan_pc' = "files"
    /\ UNCHANGED files
    /\ UNCHANGED <<integration_log, pe_event, pe_i, results, pe_j, pe_k,
                   pe_a, pe_error,
                   should_outcome, check_outcome, notify_log>>
    /\ UNCHANGED <<config_vars, watcher_vars, select_vars,
                   dispatch_vars, thread_vars, tool_vars>>

\* an exception that leaves process_event leaves scan: nothing in scan catches it
ScanRaise ==
    /\ scan_pc = "files"
    /\ pe_pc = "raised"
    /\ scan_pc' = "aborted"
    /\ UNCHANGED <<files, file_idx, all_results, total_issues, total_fixes, summary>>
    /\ UNCHANGED <<config_vars, pe_vars, watcher_vars, select_vars,
                   dispatch_vars, thread_vars, tool_vars>>

(***************************************************************************)
(* BouncerOrchestrator.event_processor_loop (core.py 276-294), the task    *)
(* start() creates.  A queue.get() that finds an event returns it without  *)
(* suspending, so the test of the flag and that dequeue are one step; a    *)
(* get() on an empty queue suspends until an event arrives or the timeout  *)
(* expires.                                                                *)
(***************************************************************************)
\* while self.running: event = await asyncio.wait_for(self.event_queue.get(), 1.0)
LoopTest ==
    /\ loop_pc = "test"
    /\ watcher_pc # "init"
    /\ IF ~running
       THEN /\ loop_pc' = "done"
            /\ UNCHANGED <<event_queue, loop_event, undone_gets>>
       ELSE IF event_queue # <<>>
            THEN /\ loop_event' = <<Head(event_queue)>>
                 /\ event_queue' = Tail(event_queue)
                 /\ undone_gets' = undone_gets + 1
                 /\ loop_pc' = "process"
            ELSE /\ loop_pc' = "wait"
                 /\ UNCHANGED <<event_queue, loop_event, undone_gets>>
    /\ UNCHANGED <<dequeued_after_stop, results_queue_size, results_queue>>
    /\ UNCHANGED <<now, max_pending_changes, debounce_delay, event_queue_size,
                   pending_changes, running, watcher_pc, last_notification,
                   settled_events, lost, last_evicted>>
    /\ UNCHANGED <<config_vars, scan_vars, pe_vars, select_vars, thread_vars,
                   tool_vars>>

\* an event arrives during the timed read: get() returns it
LoopGet ==
    /\ loop_pc = "wait"
    /\ event_queue # <<>>
    /\ loop_event' = <<Head(event_queue)>>
    /\ event_queue' = Tail(event_queue)
    /\ undone_gets' = undone_gets + 1
    /\ loop_pc' = "process"
    /\ dequeued_after_stop' = (dequeued_after_stop \/ ~running)
    /\ UNCHANGED <<results_queue_size, results_queue>>
    /\ UNCHANGED <<now, max_pending_changes, debounce_delay, event_queue_size,
                   pending_changes, running, watcher_pc, last_notification,
                   settled_events, lost, last_evicted>>
    /\ UNCHANGED <<config_vars, scan_vars, pe_vars, select_vars, thread_vars,
                   tool_vars>>

\* except asyncio.TimeoutError: continue
LoopTimeout ==
    /\ loop_pc = "wait"
    /\ event_queue = <<>>
    /\ loop_pc' = "test"
    /\ UNCHANGED <<loop_event, dequeued_after_stop, results_queue_size,
                   results_queue, undone_gets>>
    /\ UNCHANGED <<watcher_vars, config_vars, scan_vars, pe_vars, select_vars,
                   thread_vars, tool_vars>>

\* results = await self.process_event(event): the call returns or raises.
\* except Exception: logger.error(...) leaves the try before task_done()
LoopProcess ==
    /\ loop_pc = "process"
    /\ \E outcome \in {"returned", "raise"} :
           IF outcome = "returned"
           THEN loop_pc' = "put" /\ loop_event' = loop_event
           ELSE loop_pc' = "test" /\ loop_event' = <<>>
    /\ UNCHANGED <<dequeued_after_stop, results_queue_size, results_queue,
                   undone_gets>>
    /\ UNCHANGED <<watcher_vars, config_vars, scan_vars, pe_vars, select_vars,
                   thread_vars, tool_vars>>

\* await self.results_queue.put((event, results)); self.event_queue.task_done()
\* Nothing takes from results_queue.
LoopPut ==
    /\ loop_pc = "put"
    /\ Len(results_queue) < results_queue_size    \* put suspends while full
    /\ results_queue' = Append(results_queue, loop_event[1])
    /\ undone_gets' = undone_gets - 1
    /\ loop_event' = <<>>
    /\ loop_pc' = "test"
    /\ UNCHANGED <<dequeued_after_stop, results_queue_size>>
    /\ UNCHANGED <<watcher_vars, config_vars, scan_vars, pe_vars, select_vars,
                   thread_vars, tool_vars>>

(***************************************************************************)
(* File selection (core.py 406-501).  A since value is a sequence of       *)
(* tokens: a digit, a whitespace character, a word or a punctuation mark.  *)
(* Text of git's output is a sequence of character codes.                  *)
(***************************************************************************)
DigitTokens == {"2"}
SpaceTokens == {" "}
UnitWords == {"second", "minute", "hour", "day", "week", "month", "year"}

\* re.IGNORECASE
Lower(tok) ==
    CASE tok = "YESTERDAY" -> "yesterday"
      [] tok = "Hour" -> "hour"
      [] tok = "AGO" -> "ago"
      [] OTHER -> tok

\* str.strip(): the whitespace at both ends goes
RECURSIVE StripOf(_, _)
StripOf(str, ws) ==
    IF str = <<>> THEN <<>>
    ELSE IF Head(str) \in ws THEN StripOf(Tail(str), ws)
    ELSE IF str[Len(str)] \in ws THEN StripOf(SubSeq(str, 1, Len(str) - 1), ws)
    ELSE str

\* the index after the longest run of tokens of class cls that starts at i
RECURSIVE RunEnd(_, _, _)
RunEnd(str, i, cls) ==
    IF i <= Len(str) /\ str[i] \in cls THEN RunEnd(str, i + 1, cls) ELSE i

DigitsAt(str, i, n) ==
    /\ i + n - 1 <= Len(str)
    /\ \A k \in i..(i + n - 1) : str[k] \in DigitTokens

TokenAt(str, i, tok) == i <= Len(str) /\ Lower(str[i]) = tok

\* ^\d+\s+(second|minute|hour|day|week|month|year)s?\s+ago$
MatchUnitsAgo(str) ==
    LET i1 == RunEnd(str, 1, DigitTokens)
        i2 == RunEnd(str, i1, SpaceTokens)
        i3 == IF TokenAt(str, i2 + 1, "s") THEN i2 + 2 ELSE i2 + 1
        i4 == RunEnd(str, i3, SpaceTokens)
    IN  /\ i1 > 1
        /\ i2 > i1
        /\ i2 <= Len(str) /\ Lower(str[i2]) \in UnitWords
        /\ i4 > i3
        /\ TokenAt(str, i4, "ago")
        /\ Len(str) = i4

\* ^yesterday$ and ^today$
MatchWord(str, word) == Len(str) = 1 /\ Lower(str[1]) = word

\* ^\d{4}-\d{2}-\d{2}
IsoDatePrefix(str) ==
    /\ DigitsAt(str, 1, 4) /\ TokenAt(str, 5, "-")
    /\ DigitsAt(str, 6, 2) /\ TokenAt(str, 8, "-")
    /\ DigitsAt(str, 9, 2)

\* ^\d{4}-\d{2}-\d{2}$
MatchIsoDate(str) == IsoDatePrefix(str) /\ Len(str) = 10

\* ^\d{4}-\d{2}-\d{2}\s+\d{2}:\d{2}(:\d{2})?$
MatchIsoDateTime(str) ==
    /\ IsoDatePrefix(str)
    /\ LET i == RunEnd(str, 11, SpaceTokens)
       IN  /\ i > 11
           /\ DigitsAt(str, i, 2) /\ TokenAt(str, i + 2, ":")
           /\ DigitsAt(str, i + 3, 2)
           /\ \/ Len(str) = i + 4
              \/ /\ TokenAt(str, i + 5, ":")
                 /\ DigitsAt(str, i + 6, 2)
                 /\ Len(str) = i + 7

\* some pattern of allowed_patterns matches the string, from ^ to $
MatchesAllowedPattern(str) ==
    \/ MatchUnitsAgo(str)
    \/ MatchWord(str, "yesterday")
    \/ MatchWord(str, "today")
    \/ MatchIsoDate(str)
    \/ MatchIsoDateTime(str)

\* if not since: return False; re.match(pattern, since.strip(), re.IGNORECASE)
validate_git_since_param(value) ==
    IF value = <<>> THEN FALSE
    ELSE MatchesAllowedPattern(StripOf(value, SpaceTokens))

IsoDate == <<"2", "2", "2", "2", "-", "2", "2", "-", "2", "2">>
HoursAgo == <<"2", " ", "hour", "s", " ", "ago">>

SinceExamples ==
    { HoursAgo,
      <<"yesterday">>,
      IsoDate,
      IsoDate \o <<" ", "2", "2", ":", "2", "2", ":", "2", "2">>,
      IsoDate \o <<" ", "2", "2", ":", "2", "2">>,
      HoursAgo \o <<";", " ", "rm", " ", "-", "rf", " ", "/">>,
      <<>>,
      <<"next", " ", "week">>,
      <<"today">>,
      <<"YESTERDAY">>,
      <<"2", " ", "Hour", " ", "AGO">>,
      <<" ">> \o HoursAgo \o <<" ">>,
      IsoDate \o <<"2">>,
      IsoDate \o <<" ", "2", "2", ":", "2", "2", ":">> }

SinceAlphabet == {"2", " ", "hour", "ago", "yesterday", ";"}

SeqsUpTo(alphabet, n) == UNION {[1..k -> alphabet] : k \in 0..n}

SinceValues == SinceExamples \cup SeqsUpTo(SinceAlphabet, MaxSinceLen)

\* character codes of git's output besides those of the names
Space == 8
Newline == 9
TextWhitespace == {Space, Newline}

\* what target_dir.rglob('*') yields, in its order: the ignored directory and
\* a file in it, a file, a file whose name ends with a space, a directory
TargetTree ==
    << [path |-> <<0>>, is_file |-> FALSE],
       [path |-> IgnoredPath, is_file |-> TRUE],
       [path |-> FilePath(1), is_file |-> TRUE],
       [path |-> <<1, Space>>, is_file |-> TRUE],
       [path |-> <<1, 1>>, is_file |-> FALSE] >>

Exists(path) == \E n \in 1..Len(TargetTree) : TargetTree[n].path = path

IsFile(path) ==
    \E n \in 1..Len(TargetTree) : TargetTree[n].path = path /\ TargetTree[n].is_file

\* _get_all_files: if path.is_file() and not self.should_ignore(path)
get_all_files ==
    LET kept == SelectSeq(TargetTree, LAMBDA e : e.is_file /\ ~should_ignore(e.path))
    IN  [n \in 1..Len(kept) |-> kept[n].path]

\* str.split('\n')
RECURSIVE SplitLines(_)
SplitLines(text) ==
    LET i == RunEnd(text, 1, {c \in Range(text) : c # Newline})
    IN  IF i > Len(text) THEN <<text>>
        ELSE <<SubSeq(text, 1, i - 1)>> \o SplitLines(SubSeq(text, i + 1, Len(text)))

\* the loop over the lines (core.py 481-486)
RECURSIVE ParseLines(_, _, _)
ParseLines(lines, seen, out) ==
    IF lines = <<>> THEN out
    ELSE LET line == Head(lines)
             file_path == StripOf(line, TextWhitespace)
         IN  IF line # <<>> /\ line \notin seen
             THEN ParseLines(Tail(lines), seen \cup {line},
                      IF Exists(file_path) /\ IsFile(file_path)
                         /\ ~should_ignore(file_path)
                      THEN Append(out, file_path) ELSE out)
             ELSE ParseLines(Tail(lines), seen, out)

\* result.stdout.strip().split('\n'), then the loop
ParseOutput(text) == ParseLines(SplitLines(StripOf(text, TextWhitespace)), {}, <<>>)

GitOutcomes == {"ok", "nonzero_exit", "timeout", "git_missing", "other_error"}
GitOutputs == SeqsUpTo({0, 1, Space, Newline}, MaxOutputLen)

\* variant: a failure of git yields no files
ChangedFilesNoFallback(outcome, text) ==
    IF outcome = "ok" THEN ParseOutput(text) ELSE <<>>

\* return files, or in an except clause: return await self._get_all_files(...)
ChangedFiles(outcome, text) ==
    IF outcome = "ok" THEN ParseOutput(text) ELSE get_all_files

\* _get_git_changed_files up to the command line (core.py 453-464)
GitChangedFilesCall ==
    /\ sel_pc = "idle"
    /\ IF since # <<>> /\ since[1] # <<>>
       THEN IF ~validate_git_since_param(since[1])
            THEN /\ selected' = get_all_files
                 /\ git_cmd' = git_cmd
                 /\ sel_pc' = "returned"
            ELSE /\ git_cmd' = <<[subcommand |-> "log", since_arg |-> since[1]]>>
                 /\ selected' = selected
                 /\ sel_pc' = "git"
       ELSE /\ git_cmd' = <<[subcommand |-> "diff", since_arg |-> <<>>]>>
            /\ selected' = selected
            /\ sel_pc' = "git"
    /\ UNCHANGED <<since, git_output, git_outcome, stdout>>
    /\ UNCHANGED <<config_vars, scan_vars, pe_vars, watcher_vars, dispatch_vars,
                   thread_vars, tool_vars>>

\* subprocess.run(cmd, check=True, timeout=60), the parsing, the except clauses
GitRun ==
    /\ sel_pc = "git"
    /\ \E outcome \in GitOutcomes :
           /\ git_outcome' = outcome
           /\ stdout' = IF outcome = "ok" THEN git_output ELSE <<>>
           /\ selected' = ChangedFiles(outcome, git_output)
    /\ sel_pc' = "returned"
    /\ UNCHANGED <<since, git_output, git_cmd>>
    /\ UNCHANGED <<config_vars, scan_vars, pe_vars, watcher_vars, dispatch_vars,
                   thread_vars, tool_vars>>

SinceOptions == {<<>>} \cup {<<v>> : v \in SinceValues}

\* the arguments and the repository of a run; nothing selected yet
InitSelectFrom(sinces, outputs) ==
    /\ since \in sinces
    /\ git_output \in outputs
    /\ sel_pc = "idle"
    /\ git_cmd = <<>>
    /\ git_outcome = "none"
    /\ stdout = <<>>
    /\ selected = <<>>

(***************************************************************************)
(* Path validation (src/checks/tools.py).  A path string is a flag for a   *)
(* leading "/" and its components; the component "nul" stands for a name   *)
(* holding a NUL byte.  The file system is a table from the absolute       *)
(* paths without symbolic links to the kind of what is there.              *)
(***************************************************************************)
PathNames == {"in", "out", "f", "d", "link", "pipe", "..", "nul"}

PathStr(absolute, parts) == [absolute |-> absolute, parts |-> parts]

\* the process's working directory
Cwd == <<"in">>

FsTree ==
    (<<>> :> [kind |-> "dir"]) @@
    (<<"in">> :> [kind |-> "dir"]) @@
    (<<"in", "f">> :> [kind |-> "file"]) @@
    (<<"in", "d">> :> [kind |-> "dir"]) @@
    (<<"in", "pipe">> :> [kind |-> "fifo"]) @@
    (<<"in", "link">> :> [kind |-> "link", target |-> <<"out">>]) @@
    (<<"out">> :> [kind |-> "dir"]) @@
    (<<"out", "f">> :> [kind |-> "file"])

IsLink(path) == path \in DOMAIN FsTree /\ FsTree[path].kind = "link"

\* os.path.realpath, not strict: ".." drops the last component, a symbolic
\* link is replaced by its target, a missing component is kept
RECURSIVE RealPath(_, _)
RealPath(cur, rest) ==
    IF rest = <<>> THEN cur
    ELSE IF Head(rest) = ".."
         THEN RealPath(SubSeq(cur, 1, Len(cur) - 1), Tail(rest))
         ELSE IF IsLink(Append(cur, Head(rest)))
              THEN RealPath(FsTree[Append(cur, Head(rest))].target, Tail(rest))
              ELSE RealPath(Append(cur, Head(rest)), Tail(rest))

\* os.path.abspath: the components after the working directory, ".." dropped
\* with the component before it, symbolic links kept
RECURSIVE NormPath(_, _)
NormPath(cur, rest) ==
    IF rest = <<>> THEN cur
    ELSE IF Head(rest) = ".."
         THEN NormPath(SubSeq(cur, 1, Len(cur) - 1), Tail(rest))
         ELSE NormPath(Append(cur, Head(rest)), Tail(rest))

\* '\x00' in str(file_path)
HasNul(str) == "nul" \in Range(str.parts)

\* Path(file_path).resolve()
Resolve(str) == RealPath(IF str.absolute THEN <<>> ELSE Cwd, str.parts)

\* resolved_path.relative_to(allowed_dir) does not raise
IsRelativeTo(path, dir) ==
    Len(dir) <= Len(path) /\ \A i \in 1..Len(dir) : path[i] = dir[i]

\* resolved_path.exists()
PathExists(path) == path \in DOMAIN FsTree

\* resolved_path.is_file()
PathIsFile(path) == PathExists(path) /\ FsTree[path].kind = "file"

Rejected(message) == [ok |-> FALSE, error |-> message]

Accepted(path) == [ok |-> TRUE, path |-> path]

\* variant: the allow-list is tested on the path before symbolic links are
\* resolved
ValidateUnresolved(file_path, allowed_dirs) ==
    LET resolved_path == Resolve(file_path)
        lexical == NormPath(IF file_path.absolute THEN <<>> ELSE Cwd, file_path.parts)
    IN  IF HasNul(file_path) THEN {Rejected("invalid"), Rejected("null bytes")}
        ELSE IF /\ allowed_dirs # <<>>
                /\ ~\E i \in 1..Len(allowed_dirs) :
                       IsRelativeTo(lexical, allowed_dirs[i])
             THEN {Rejected("outside allowed directories")}
        ELSE IF ~PathExists(resolved_path) THEN {Rejected("does not exist")}
        ELSE IF ~PathIsFile(resolved_path) THEN {Rejected("not a file")}
        ELSE {Accepted(resolved_path)}

\* validate_file_path: the set of what the call can come to.  resolve()
\* raises on a NUL byte where the platform's lstat does; where it does not,
\* line 46 raises
validate_file_path(file_path, allowed_dirs) ==
    LET resolved_path == Resolve(file_path)
    IN  IF HasNul(file_path) THEN {Rejected("invalid"), Rejected("null bytes")}
        ELSE IF /\ allowed_dirs # <<>>
                /\ ~\E i \in 1..Len(allowed_dirs) :
                       IsRelativeTo(resolved_path, allowed_dirs[i])
             THEN {Rejected("outside allowed directories")}
        ELSE IF ~PathExists(resolved_path) THEN {Rejected("does not exist")}
        ELSE IF ~PathIsFile(resolved_path) THEN {Rejected("not a file")}
        ELSE {Accepted(resolved_path)}

PathInputs ==
    {PathStr(absolute, parts) :
        absolute \in BOOLEAN, parts \in SeqsUpTo(PathNames, MaxPathLen)}

\* the directories the allow-list is set from
RootInputs ==
    {PathStr(TRUE, <<"in">>), PathStr(TRUE, <<"in", "d">>),
     PathStr(TRUE, <<"out">>), PathStr(FALSE, <<"link">>)}

\* set_allowed_directories(directories): the orchestrator's constructor sets
\* the list (core.py 59-60), before any path is validated
SetAllowedDirectories ==
    /\ guard_call # <<>>
    /\ guard_call[1].result = <<>>
    /\ \E directories \in SeqsUpTo(RootInputs, MaxRoots) :
           allowed_directories' =
               [i \in 1..Len(directories) |-> Resolve(directories[i])]
    /\ UNCHANGED <<guard_call, hook_vars>>
    /\ UNCHANGED <<watcher_vars, config_vars, scan_vars, pe_vars, select_vars,
                   dispatch_vars, thread_vars>>

\* the argument of a call that has not been made yet
PendingCall(file_path) ==
    <<[file_path |-> file_path, allowed_dirs |-> <<>>, result |-> <<>>]>>

\* validate_file_path(file_path): allowed_dirs is None, the global list is used
ValidateFilePath ==
    /\ guard_call # <<>>
    /\ \E result \in validate_file_path(guard_call[1].file_path,
                                        allowed_directories) :
           guard_call' = <<[file_path |-> guard_call[1].file_path,
                            allowed_dirs |-> allowed_directories,
                            result |-> <<result>>]>>
    /\ UNCHANGED <<allowed_directories, hook_vars>>
    /\ UNCHANGED <<watcher_vars, config_vars, scan_vars, pe_vars, select_vars,
                   dispatch_vars, thread_vars>>

\* the module as imported: _allowed_directories = []
InitGuard ==
    /\ allowed_directories = <<>>
    /\ guard_call = <<>>

(***************************************************************************)
(* HooksManager (src/hooks/manager.py).  A path, a content or a command is *)
(* a sequence of characters; "P" and "S" are the capitals of "p" and "s".  *)
(***************************************************************************)
ToolNames == {"Write", "Bash", "Read"}
PathChars == {"p", "P"}
ContentChars == {"s", "S", "b", "w"}
CommandChars == {"r", "u"}

\* str.lower()
StrLower(str) ==
    [i \in 1..Len(str) |->
        CASE str[i] = "P" -> "p"
          [] str[i] = "S" -> "s"
          [] OTHER -> str[i]]

\* any(pattern in text for pattern in patterns)
AnyIn(patterns, text) == \E pattern \in patterns : IsSubstring(pattern, text)

\* the 'validation' section: every check switched on, lower-case patterns
BaseValidation ==
    [enabled |-> TRUE,
     block_protected_files |-> TRUE, protected_file_patterns |-> {<<"p">>},
     block_hardcoded_secrets |-> TRUE, secret_patterns |-> {<<"s">>},
     file_size_limit |-> FileSizeLimit,
     block_dangerous_code |-> TRUE, blocked_code_patterns |-> {<<"b">>},
     warning_code_patterns |-> {<<"w">>},
     block_dangerous_commands |-> TRUE, dangerous_commands |-> {<<"r">>},
     warning_commands |-> {<<"u">>}]

ValidationConfigs ==
    {BaseValidation,
     [BaseValidation EXCEPT !.enabled = FALSE],
     [BaseValidation EXCEPT !.protected_file_patterns = {<<"P">>}],
     [BaseValidation EXCEPT !.secret_patterns = {<<"S">>}],
     [BaseValidation EXCEPT !.block_protected_files = FALSE],
     [BaseValidation EXCEPT !.block_hardcoded_secrets = FALSE],
     [BaseValidation EXCEPT !.block_dangerous_code = FALSE],
     [BaseValidation EXCEPT !.block_dangerous_commands = FALSE]}

\* the 'logging' section with its defaults
BaseLogging ==
    [enabled |-> TRUE, log_writes |-> TRUE, log_bash |-> TRUE,
     log_all_tools |-> FALSE]

LoggingConfigs ==
    [enabled : BOOLEAN, log_writes : BOOLEAN, log_bash : BOOLEAN,
     log_all_tools : BOOLEAN]

HooksConfigs ==
    {[enabled |-> e, validation |-> v, logging |-> BaseLogging] :
        e \in BOOLEAN, v \in ValidationConfigs}
    \cup
    {[enabled |-> e, validation |-> BaseValidation, logging |-> l] :
        e \in BOOLEAN, l \in LoggingConfigs}

\* variant: the validation switch alone decides
ValidationSwitchOnly(config) == config.validation.enabled

\* return self.enabled and self.validation_config.get('enabled', True)
is_validation_enabled(config) == config.enabled /\ config.validation.enabled

\* return self.enabled and self.logging_config.get('enabled', True)
is_logging_enabled(config) == config.enabled /\ config.logging.enabled

\* return {}
Allow == [permissionDecision |-> "none"]

\* self._deny(reason), self._ask(reason): the reason is the check that answered
Deny(check) == [permissionDecision |-> "deny", check |-> check]

Ask(check) == [permissionDecision |-> "ask", check |-> check]

validate_before_write(config, input_data) ==
    LET v == config.validation
        file_path == input_data.path
        content == input_data.content
    IN  IF ~is_validation_enabled(config) THEN Allow
        ELSE IF input_data.tool_name # "Write" THEN Allow
        ELSE IF /\ v.block_protected_files
                /\ AnyIn(v.protected_file_patterns, StrLower(file_path))
             THEN Deny("protected file")
        ELSE IF /\ v.block_hardcoded_secrets
                /\ AnyIn(v.secret_patterns, StrLower(content))
             THEN Deny("secrets")
        ELSE IF Len(content) > v.file_size_limit THEN Deny("file size")
        ELSE IF v.block_dangerous_code /\ AnyIn(v.blocked_code_patterns, content)
             THEN Deny("blocked code")
        ELSE IF v.block_dangerous_code /\ AnyIn(v.warning_code_patterns, content)
             THEN Ask("warning code")
        ELSE Allow

validate_before_bash(config, input_data) ==
    LET v == config.validation
        command == input_data.command
    IN  IF ~is_validation_enabled(config) THEN Allow
        ELSE IF input_data.tool_name # "Bash" THEN Allow
        ELSE IF v.block_dangerous_commands /\ AnyIn(v.dangerous_commands, command)
             THEN Deny("dangerous command")
        ELSE IF v.block_dangerous_commands /\ AnyIn(v.warning_commands, command)
             THEN Ask("warning command")
        ELSE Allow

\* the entry a logging hook hands to _write_audit_log, <<>> when it returns before
LogEntry(config, hook, input_data) ==
    IF ~is_logging_enabled(config) THEN <<>>
    ELSE CASE hook = "log_after_write" ->
                  IF config.logging.log_writes /\ input_data.tool_name = "Write"
                  THEN <<[action |-> "file_write"]>> ELSE <<>>
           [] hook = "log_after_bash" ->
                  IF config.logging.log_bash /\ input_data.tool_name = "Bash"
                  THEN <<[action |-> "bash_command"]>> ELSE <<>>
           [] hook = "log_tool_use" ->
                  IF config.logging.log_all_tools
                  THEN <<[action |-> "tool_use"]>> ELSE <<>>

get_pre_tool_hooks(config) ==
    IF ~is_validation_enabled(config) THEN <<>>
    ELSE <<"validate_before_write", "validate_before_bash">>

get_post_tool_hooks(config) ==
    IF ~is_logging_enabled(config) THEN <<>>
    ELSE (IF config.logging.log_writes THEN <<"log_after_write">> ELSE <<>>)
         \o (IF config.logging.log_bash THEN <<"log_after_bash">> ELSE <<>>)
         \o (IF config.logging.log_all_tools THEN <<"log_tool_use">> ELSE <<>>)

WriteInputs ==
    {[tool_name |-> t, path |-> f, content |-> c, command |-> <<>>] :
        t \in ToolNames, f \in SeqsUpTo(PathChars, MaxHookPathLen),
        c \in SeqsUpTo(ContentChars, FileSizeLimit + 1)}

BashInputs ==
    {[tool_name |-> t, path |-> <<>>, content |-> <<>>, command |-> c] :
        t \in ToolNames, c \in SeqsUpTo(CommandChars, MaxCommandLen)}

HookCall(hook, input_data, result) ==
    <<[hook |-> hook, input |-> input_data, result |-> result]>>

ValidateBeforeWrite ==
    /\ hook_call # <<>>
    /\ hook_call' =
           HookCall("validate_before_write", hook_call[1].input,
                    validate_before_write(hooks_config, hook_call[1].input))
    /\ UNCHANGED <<hooks_config, audit_log, guard_vars>>
    /\ UNCHANGED <<watcher_vars, config_vars, scan_vars, pe_vars, select_vars,
                   dispatch_vars, thread_vars>>

ValidateBeforeBash ==
    /\ hook_call # <<>>
    /\ hook_call' =
           HookCall("validate_before_bash", hook_call[1].input,
                    validate_before_bash(hooks_config, hook_call[1].input))
    /\ UNCHANGED <<hooks_config, audit_log, guard_vars>>
    /\ UNCHANGED <<watcher_vars, config_vars, scan_vars, pe_vars, select_vars,
                   dispatch_vars, thread_vars>>

\* log_after_write, log_after_bash, log_tool_use: the hook returns {}; when it
\* gets as far as _write_audit_log, the entry is appended to the audit file,
\* or the write fails and the exception is logged
LoggingHook ==
    /\ hook_call # <<>>
    /\ Len(audit_log) < MaxAuditEntries
    /\ \E hook \in {"log_after_write", "log_after_bash", "log_tool_use"} :
           /\ hook_call' = HookCall(hook, hook_call[1].input, Allow)
           /\ \/ audit_log' =
                     audit_log \o LogEntry(hooks_config, hook, hook_call[1].input)
              \/ audit_log' = audit_log
    /\ UNCHANGED <<hooks_config, guard_vars>>
    /\ UNCHANGED <<watcher_vars, config_vars, scan_vars, pe_vars, select_vars,
                   dispatch_vars, thread_vars>>

GetPreToolHooks ==
    /\ hook_call # <<>>
    /\ hook_call' = HookCall("get_pre_tool_hooks", hook_call[1].input,
                             get_pre_tool_hooks(hooks_config))
    /\ UNCHANGED <<hooks_config, audit_log, guard_vars>>
    /\ UNCHANGED <<watcher_vars, config_vars, scan_vars, pe_vars, select_vars,
                   dispatch_vars, thread_vars>>

GetPostToolHooks ==
    /\ hook_call # <<>>
    /\ hook_call' = HookCall("get_post_tool_hooks", hook_call[1].input,
                             get_post_tool_hooks(hooks_config))
    /\ UNCHANGED <<hooks_config, audit_log, guard_vars>>
    /\ UNCHANGED <<watcher_vars, config_vars, scan_vars, pe_vars, select_vars,
                   dispatch_vars, thread_vars>>

\* HooksManager.__init__(config), no hook called, an empty audit file
InitHooksFrom(configs) ==
    /\ hooks_config \in configs
    /\ hook_call = <<>>
    /\ audit_log = <<>>

\* config.get('enabled', False) of a configuration without hooks
DisabledHooks ==
    [enabled |-> FALSE, validation |-> BaseValidation, logging |-> BaseLogging]

InitTools ==
    /\ InitGuard
    /\ InitHooksFrom({DisabledHooks})

\* BouncerOrchestrator.__init__ (core.py 53-110): nothing registered, nothing run
InitOrchestrator ==
    /\ bouncers = <<>>
    /\ registered = <<>>
    /\ notifiers = <<>>
    /\ scan_pc = "idle"
    /\ files = <<>>
    /\ file_idx = 1
    /\ all_results = <<>>
    /\ total_issues = 0
    /\ total_fixes = 0
    /\ summary = <<>>
    /\ pe_pc = "idle"
    /\ pe_event = <<>>
    /\ pe_i = 1
    /\ results = <<>>
    /\ pe_j = 1
    /\ pe_k = 1
    /\ pe_a = 1
    /\ pe_error = "none"
    /\ should_outcome = <<>>
    /\ check_outcome = <<>>
    /\ notify_log = <<>>
    /\ integration_log = <<>>
    /\ loop_pc = "test"
    /\ loop_event = <<>>
    /\ dequeued_after_stop = FALSE
    /\ results_queue_size = ResultsQueueSizeCfg
    /\ results_queue = <<>>
    /\ undone_gets = 0
    /\ sleep_until = 0
    /\ stop_pc = "idle"
    /\ stop_until = 0
    /\ sweep_time = 0
    /\ sweep_items = <<>>
    /\ sweep_i = 1
    /\ sweep_out = <<>>

\* FileWatcher.__init__ (watcher.py 28-36), before start()
InitWatcher ==
    /\ now = 0
    /\ max_pending_changes = DEFAULT_MAX_PENDING_CHANGES
    /\ debounce_delay = DefaultDebounceDelay
    /\ poll_interval = DefaultPollInterval
    /\ event_queue_size = EventQueueSizeCfg
    /\ pending_changes = <<>>
    /\ event_queue = <<>>
    /\ running = FALSE
    /\ watcher_pc = "init"
    /\ last_notification = [p \in WatchPaths |-> <<>>]
    /\ settled_events = [p \in WatchPaths |-> <<>>]
    /\ lost = [p \in WatchPaths |-> "no"]
    /\ last_evicted = <<>>

(***************************************************************************)
(* Continuous mode.                                                        *)
(***************************************************************************)
Init ==
    /\ InitWatcher
    /\ InitOrchestrator
    /\ InitTools
    /\ InitSelectFrom({<<>>}, {<<>>})
    /\ integration_actions = FALSE
    /\ mcp_config = NoIntegrations
    /\ listing = <<>>

Next ==
    \/ Start
    \/ Stop
    \/ Tick
    \/ HandleChange
    \/ WatcherLoopTest
    \/ Sweep
    \/ ProcessorGet

Spec == Init /\ [][Next]_vars

(***************************************************************************)
(* A notification storm on a pending set that max_pending_changes - 1      *)
(* creations at time 0 have filled.                                        *)
(***************************************************************************)
StormSeed(n) ==
    [i \in 1..n |-> [path |-> FilePath(i), timestamp |-> 0, event_type |-> "created"]]

InitStorm ==
    /\ now = 1
    /\ max_pending_changes \in {1, 2, StormMaxPending}
    /\ debounce_delay = DefaultDebounceDelay
    /\ poll_interval = DefaultPollInterval
    /\ event_queue_size = EventQueueSizeCfg
    /\ pending_changes = StormSeed(max_pending_changes - 1)
    /\ event_queue = <<>>
    /\ running = TRUE
    /\ watcher_pc = "sleep"
    /\ last_notification =
           [p \in StormPaths |->
               IF p \in PathsOf(StormSeed(max_pending_changes - 1))
               THEN <<[event_type |-> "created", timestamp |-> 0, since |-> 0]>>
               ELSE <<>>]
    /\ settled_events = [p \in StormPaths |-> <<>>]
    /\ lost = [p \in StormPaths |-> "no"]
    /\ last_evicted = <<>>
    /\ InitOrchestrator
    /\ InitTools
    /\ InitSelectFrom({<<>>}, {<<>>})
    /\ integration_actions = FALSE
    /\ mcp_config = NoIntegrations
    /\ listing = <<>>

NextStorm == StormChange

SpecStorm == InitStorm /\ [][NextStorm]_vars

(***************************************************************************)
(* The callback on the observer's thread beside the debounce loop on the   *)
(* event loop: the loop is in its sleep, the pending set holds the         *)
(* max_pending_changes - 1 creations of time 0, which have settled.        *)
(***************************************************************************)
InitRace ==
    /\ now = DefaultDebounceDelay
    /\ max_pending_changes = StormMaxPending
    /\ debounce_delay = DefaultDebounceDelay
    /\ poll_interval = DefaultPollInterval
    /\ event_queue_size = EventQueueSizeCfg
    /\ pending_changes = StormSeed(max_pending_changes - 1)
    /\ event_queue = <<>>
    /\ running = TRUE
    /\ watcher_pc = "sleep"
    /\ last_notification =
           [p \in StormPaths |->
               IF p \in PathsOf(StormSeed(max_pending_changes - 1))
               THEN <<[event_type |-> "created", timestamp |-> 0, since |-> 0]>>
               ELSE <<>>]
    /\ settled_events = [p \in StormPaths |-> <<>>]
    /\ lost = [p \in StormPaths |-> "no"]
    /\ last_evicted = <<>>
    /\ InitOrchestrator
    /\ InitTools
    /\ InitSelectFrom({<<>>}, {<<>>})
    /\ integration_actions = FALSE
    /\ mcp_config = NoIntegrations
    /\ listing = <<>>

NextRace ==
    \/ StormChange
    \/ WatcherLoopTest
    \/ SweepSnapshot
    \/ SweepEntry
    \/ SweepPut

SpecRace == InitRace /\ [][NextRace]_vars

(***************************************************************************)
(* Batch mode: registration, then one scan of the listed files.            *)
(***************************************************************************)
FileLists == {SubSeq(ScanFiles, 1, n) : n \in 0..Len(ScanFiles)}

InitScan ==
    /\ InitWatcher
    /\ InitOrchestrator
    /\ InitTools
    /\ InitSelectFrom({<<>>}, {<<>>})
    /\ \/ integration_actions = FALSE /\ mcp_config = NoIntegrations
       \/ integration_actions = TRUE /\ mcp_config \in McpConfigs
    /\ listing \in FileLists

NextScan ==
    \/ RegisterBouncer
    \/ RegisterNotifier
    \/ ScanStart
    \/ ScanProcessFile
    \/ ShouldCheck
    \/ Check
    \/ Notify
    \/ IntegrationCall
    \/ IntegrationsReturn
    \/ ScanCollect
    \/ ScanRaise

SpecScan == InitScan /\ [][NextScan]_vars

(***************************************************************************)
(* Incremental mode: one call of _get_git_changed_files.                   *)
(***************************************************************************)
InitIncremental ==
    /\ InitWatcher
    /\ InitOrchestrator
    /\ InitTools
    /\ InitSelectFrom(SinceOptions, GitOutputs)
    /\ integration_actions = FALSE
    /\ mcp_config = NoIntegrations
    /\ listing = <<>>

NextSelect ==
    \/ GitChangedFilesCall
    \/ GitRun

SpecSelect == InitIncremental /\ [][NextSelect]_vars

(***************************************************************************)
(* Continuous mode with the steps of the dispatch loop.                    *)
(***************************************************************************)
NextDispatch ==
    \/ Start
    \/ Stop
    \/ Tick
    \/ OnModified
    \/ WatcherLoopTest
    \/ Sweep
    \/ LoopTest
    \/ LoopGet
    \/ LoopTimeout
    \/ LoopProcess
    \/ LoopPut

\* the orchestrator configured with a short debounce_delay
InitDispatch ==
    /\ InitOrchestrator
    /\ InitTools
    /\ InitSelectFrom({<<>>}, {<<>>})
    /\ integration_actions = FALSE
    /\ mcp_config = NoIntegrations
    /\ listing = <<>>
    /\ now = 0
    /\ max_pending_changes = DEFAULT_MAX_PENDING_CHANGES
    /\ debounce_delay = ShortDebounceDelay
    /\ poll_interval = DefaultPollInterval
    /\ event_queue_size = EventQueueSizeCfg
    /\ pending_changes = <<>>
    /\ event_queue = <<>>
    /\ running = FALSE
    /\ watcher_pc = "init"
    /\ last_notification = [p \in WatchPaths |-> <<>>]
    /\ settled_events = [p \in WatchPaths |-> <<>>]
    /\ lost = [p \in WatchPaths |-> "no"]
    /\ last_evicted = <<>>

SpecDispatch == InitDispatch /\ [][NextDispatch]_vars

(***************************************************************************)
(* Continuous mode and one call of stop(), timed.                          *)
(***************************************************************************)
PollIntervals == {DefaultPollInterval, LongPollInterval}

InitStop ==
    /\ InitOrchestrator
    /\ InitTools
    /\ InitSelectFrom({<<>>}, {<<>>})
    /\ integration_actions = FALSE
    /\ mcp_config = NoIntegrations
    /\ listing = <<>>
    /\ now = 0
    /\ max_pending_changes = DEFAULT_MAX_PENDING_CHANGES
    /\ debounce_delay = ShortDebounceDelay
    /\ poll_interval \in PollIntervals
    /\ event_queue_size = EventQueueSizeCfg
    /\ pending_changes = <<>>
    /\ event_queue = <<>>
    /\ running = FALSE
    /\ watcher_pc = "init"
    /\ last_notification = [p \in WatchPaths |-> <<>>]
    /\ settled_events = [p \in WatchPaths |-> <<>>]
    /\ lost = [p \in WatchPaths |-> "no"]
    /\ last_evicted = <<>>

NextStop ==
    \/ Start
    \/ StopCall
    \/ StopReturn
    \/ TimedTick
    \/ OnModified
    \/ WatcherLoopSleep
    \/ SweepAfterSleep

SpecStop == InitStop /\ [][NextStop]_vars

(***************************************************************************)
(* Path validation alone: the allow-list is set, paths are validated.      *)
(***************************************************************************)
InitPathGuard ==
    /\ InitWatcher
    /\ InitOrchestrator
    /\ InitSelectFrom({<<>>}, {<<>>})
    /\ integration_actions = FALSE
    /\ mcp_config = NoIntegrations
    /\ listing = <<>>
    /\ allowed_directories = <<>>
    /\ guard_call \in {PendingCall(file_path) : file_path \in PathInputs}
    /\ InitHooksFrom({DisabledHooks})

NextPathGuard ==
    \/ SetAllowedDirectories
    \/ ValidateFilePath

SpecPathGuard == InitPathGuard /\ [][NextPathGuard]_vars

(***************************************************************************)
(* The hooks of one HooksManager, called in any order.                     *)
(***************************************************************************)
InitHooks ==
    /\ InitWatcher
    /\ InitOrchestrator
    /\ InitSelectFrom({<<>>}, {<<>>})
    /\ integration_actions = FALSE
    /\ mcp_config = NoIntegrations
    /\ listing = <<>>
    /\ InitGuard
    /\ hooks_config \in HooksConfigs
    /\ hook_call \in {HookCall("none", input_data, <<>>) :
                          input_data \in WriteInputs \cup BashInputs}
    /\ audit_log = <<>>

NextHooks ==
    \/ ValidateBeforeWrite
    \/ ValidateBeforeBash
    \/ LoggingHook
    \/ GetPreToolHooks
    \/ GetPostToolHooks

SpecHooks == InitHooks /\ [][NextHooks]_vars

(***************************************************************************)
(* The watcher and the file selection of one repository side by side.      *)
(***************************************************************************)
IgnoreSinces == {<<>>, <<<<"next", " ", "week">>>>}
IgnoreOutputs == {<<0, 1, Newline, 1>>}

InitIgnore ==
    /\ InitWatcher
    /\ InitOrchestrator
    /\ InitTools
    /\ InitSelectFrom(IgnoreSinces, IgnoreOutputs)
    /\ integration_actions = FALSE
    /\ mcp_config = NoIntegrations
    /\ listing = <<>>

NextIgnore ==
    \/ Start
    \/ Tick
    \/ HandleChange
    \/ WatcherLoopTest
    \/ Sweep
    \/ GitChangedFilesCall
    \/ GitRun

SpecIgnore == InitIgnore /\ [][NextIgnore]_vars

(***************************************************************************)
(* Claims about the debouncer.                                             *)
(***************************************************************************)
Notified(p) == last_notification[p] # <<>>
LastSeen(p) == last_notification[p][1]
SweepStep == watcher_pc = "sleep" /\ watcher_pc' = "check"
Quiet(info) == now - info.timestamp >= debounce_delay

C1_State ==
    \A p \in DOMAIN last_notification :
        (Notified(p) /\ lost[p] = "no") =>
            /\ Len(settled_events[p]) <= 1
            /\ settled_events[p] = <<>> =>
                   /\ IsPending(p)
                   /\ PendingInfo(p).event_type = LastSeen(p).event_type
                   /\ PendingInfo(p).timestamp = LastSeen(p).timestamp
            /\ settled_events[p] # <<>> =>
                   /\ ~IsPending(p)
                   /\ settled_events[p][1].path = p
                   /\ settled_events[p][1].event_type = LastSeen(p).event_type
                   /\ settled_events[p][1].timestamp = LastSeen(p).timestamp

C1_Step ==
    SweepStep =>
        \A p \in DOMAIN last_notification :
            /\ (IsPending(p) /\ Quiet(PendingInfo(p))) =>
                   p \notin PathsOf(pending_changes')
            /\ settled_events'[p] # settled_events[p] =>
                   /\ IsPending(p) /\ Quiet(PendingInfo(p))
                   /\ settled_events'[p][Len(settled_events'[p])] \in Range(event_queue')

C3_EvictionBound == Len(pending_changes) <= max_pending_changes

TouchOrder(pending) ==
    \A i, j \in 1..Len(pending) : i < j => pending[i].timestamp <= pending[j].timestamp

C4_Step ==
    Len(pending_changes) = max_pending_changes =>
        LET k == Len(pending_changes) \div 10
        IN  /\ last_evicted' = SubSeq(pending_changes, 1, k)
            /\ \A i \in (k + 1)..Len(pending_changes) :
                   pending_changes[i].path \in PathsOf(pending_changes')
            /\ \A i \in 1..Len(last_evicted'), j \in 1..Len(pending_changes') :
                   last_evicted'[i].timestamp <= pending_changes'[j].timestamp

\* C4: a callback that finds the pending set at max_pending_changes evicts
\* exactly the first tenth of the entries in last-touch order before it
\* inserts: the pending set is kept in last-touch order, every evicted entry
\* was touched no later than every entry that stays, and no other entry goes.
C4_EvictOldestTenth == [](TouchOrder(pending_changes)) /\ [][C4_Step]_vars

\* the oldest seed was touched again and stays; the second oldest was evicted
C4_Witness ==
    /\ Len(last_evicted) = 1
    /\ last_evicted[1].path = FilePath(2)
    /\ IsPending(FilePath(1))
    /\ PendingInfo(FilePath(1)).timestamp > 0
    /\ Len(pending_changes) = max_pending_changes

C5_Step ==
    SweepStep =>
        LET settled == SelectSeq(pending_changes, Quiet)
            room == event_queue_size - Len(event_queue)
            taken == IF room < Len(settled) THEN room ELSE Len(settled)
        IN  /\ \A i \in 1..Len(settled) : settled[i].path \notin PathsOf(pending_changes')
            /\ Len(event_queue') = Len(event_queue) + taken
            /\ SubSeq(event_queue', 1, Len(event_queue)) = event_queue
            /\ \A i \in 1..taken :
                   event_queue'[Len(event_queue) + i] = SettledEvent(settled[i])
            /\ \A i \in (taken + 1)..Len(settled) : lost'[settled[i].path] = "dropped"
            /\ (room = 0) => event_queue' = event_queue
            /\ watcher_pc' = "check"

\* C5: the event queue never holds more than its capacity; a sweep puts the
\* settled events in order while there is room and drops the others, leaving
\* a full queue unchanged, removes every settled entry from the pending set
\* and returns to the head of its loop.
C5_QueueBackpressure ==
    [](Len(event_queue) <= event_queue_size) /\ [][C5_Step]_vars

\* one sweep found two settled entries: one filled the queue, the other was dropped
C5_Witness ==
    \E p, q \in DOMAIN last_notification :
        /\ p # q
        /\ Notified(p) /\ Notified(q)
        /\ LastSeen(p).timestamp = LastSeen(q).timestamp
        /\ Len(event_queue) = event_queue_size
        /\ settled_events[p] # <<>> /\ lost[p] = "no"
        /\ lost[q] = "dropped" /\ ~IsPending(q)

(***************************************************************************)
(* process_event and scan                                                  *)
(***************************************************************************)
ResultNames(res) == [n \in 1..Len(res) |-> res[n].bouncer_name]

\* process_event has left the loop over the checkers without raising
CheckersDone == pe_pc \in {"notify", "integrations", "returned"}

\* C6: a checker whose check() raises stops nothing: the step that catches the
\* exception goes on to the next checker and adds no result; when
\* process_event returns, every checker was asked should_check, every
\* eligible one had check invoked, the ones whose check completed have their
\* result in the list, and no result carries a failing checker's name.
C6_State ==
    /\ pe_error # "check"
    /\ CheckersDone =>
           \A i \in 1..Len(bouncers) :
               /\ should_outcome[i] # "none"
               /\ should_outcome[i] = "true" => check_outcome[i] # "none"
               /\ check_outcome[i] = "raise" =>
                      bouncers[i] \notin Range(ResultNames(results))
               /\ check_outcome[i] = "ok" =>
                      bouncers[i] \in Range(ResultNames(results))

C6_Step ==
    (pe_pc = "check" /\ pe_pc' # "check" /\ check_outcome'[pe_i] = "raise") =>
        /\ pe_pc' = PcAfterBouncers(pe_i + 1)
        /\ pe_i' = pe_i + 1
        /\ results' = results

C6_CheckerIsolation == [](C6_State) /\ [][C6_Step]_vars

C6_Witness ==
    /\ pe_pc = "returned"
    /\ Len(bouncers) = 2
    /\ check_outcome[1] = "raise"
    /\ check_outcome[2] = "ok"
    /\ ResultNames(results) = <<bouncers[2]>>

\* C7: a checker whose should_check raised is treated as ineligible: the
\* exception does not leave process_event and the evaluation has moved on
\* to the checkers after it.
C7_ShouldCheckIsolation ==
    \A i \in 1..Len(should_outcome) :
        should_outcome[i] = "raise" =>
            /\ pe_pc # "raised"
            /\ pe_i > i
            /\ check_outcome[i] = "none"

\* C8: no exception of a plugin leaves process_event, a scan is never
\* aborted, and the summary of a finished scan counts every listed file.
C8_ScanNeverAborted ==
    /\ pe_pc # "raised"
    /\ scan_pc # "aborted"
    /\ scan_pc = "done" =>
           /\ summary # <<>>
           /\ summary[1].files_scanned = Len(listing)

RECURSIVE FirstRegistrations(_)
FirstRegistrations(calls) ==
    IF calls = <<>> THEN <<>>
    ELSE LET before == FirstRegistrations(SubSeq(calls, 1, Len(calls) - 1))
             name == calls[Len(calls)]
         IN  IF name \in Range(before) THEN before ELSE Append(before, name)

\* should_check returned True and check completed, for the checker of this name
Produced(name) ==
    \E i \in 1..Len(bouncers) :
        /\ bouncers[i] = name
        /\ should_outcome[i] = "true"
        /\ check_outcome[i] = "ok"

\* C10: the list process_event returns holds exactly one result for each
\* registered checker that was eligible and whose check completed, none for
\* any other, in the order in which the checkers were registered.
C10_ResultsInRegistrationOrder ==
    CheckersDone =>
        /\ ResultNames(results) =
               SelectSeq(FirstRegistrations(registered), LAMBDA name : Produced(name))
        /\ \A n \in 1..Len(results) : results[n].file_path = pe_event[1].path

C10_Witness ==
    /\ pe_pc = "returned"
    /\ registered = <<"security", "quality", "security">>
    /\ ResultNames(results) = <<"security", "quality">>
    /\ ResultNames(all_results) = <<"quality">>

(***************************************************************************)
(* File selection                                                          *)
(***************************************************************************)
SinceProvided == since # <<>>
GitWasRun == git_cmd # <<>>

\* C11: a provided since value is accepted iff it has one of the allowed
\* forms (the four accepted examples have, the three rejected ones have
\* not); an accepted value goes to git log, and for every rejected value,
\* the empty string included, no git command is run and the full-scan list
\* is returned.
C11_SinceValidation ==
    /\ \A v \in { HoursAgo, <<"yesterday">>, IsoDate,
                  IsoDate \o <<" ", "2", "2", ":", "2", "2", ":", "2", "2">> } :
           validate_git_since_param(v)
    /\ \A v \in { HoursAgo \o <<";", " ", "rm", " ", "-", "rf", " ", "/">>,
                  <<>>, <<"next", " ", "week">> } :
           ~validate_git_since_param(v)
    /\ (sel_pc # "idle" /\ SinceProvided) =>
           IF validate_git_since_param(since[1])
           THEN GitWasRun /\ git_cmd[1].subcommand = "log"
           ELSE /\ ~GitWasRun
                /\ sel_pc = "returned"
                /\ selected = get_all_files

\* C12: the since value on a git command line is itself a string of the
\* allowed forms, with nothing before, after or inside it that the forms do
\* not admit.
C12_StrictAllowList ==
    (GitWasRun /\ git_cmd[1].subcommand = "log") =>
        MatchesAllowedPattern(git_cmd[1].since_arg)

\* C13: whatever way the git command fails (non-zero exit, timeout, git
\* missing, any other error), _get_git_changed_files returns, and returns
\* the list of the full scan.
C13_GitFailureFallsBack ==
    /\ git_outcome \notin {"none", "ok"} =>
           /\ sel_pc = "returned"
           /\ selected = get_all_files

C13_Witness ==
    /\ sel_pc = "returned"
    /\ SinceProvided
    /\ GitWasRun
    /\ git_outcome = "timeout"
    /\ Len(selected) = 2

NoDuplicates(seq) == \A m, n \in 1..Len(seq) : seq[m] = seq[n] => m = n

\* the paths the lines of git's output name, surrounding whitespace aside
NamedPaths(text) ==
    {StripOf(line, TextWhitespace) : line \in Range(SplitLines(text))}

\* C14: after a successful git command the returned list holds no path
\* twice, and holds a path iff a line of the output names it, it exists, it
\* is a regular file and it matches no ignore pattern.
C14_ParsedOutput ==
    (sel_pc = "returned" /\ git_outcome = "ok") =>
        /\ NoDuplicates(selected)
        /\ \A path \in NamedPaths(stdout) \cup Range(selected) :
               path \in Range(selected) <=>
                   /\ path \in NamedPaths(stdout)
                   /\ Exists(path) /\ IsFile(path)
                   /\ ~should_ignore(path)

(***************************************************************************)
(* Integrations                                                            *)
(***************************************************************************)
\* how many times action a was awaited for result k of the event
Attempts(k, a) ==
    Cardinality({n \in 1..Len(integration_log) :
                    integration_log[n].result = k /\ integration_log[n].action = a})

\* process_event is past _handle_integrations
IntegrationsDone == pe_pc = "returned" /\ pe_error = "none"

\* the provider is enabled and its auto_create flag for this action is set
FlagSet(provider, flag) ==
    /\ integration_actions
    /\ provider \in mcp_config.enabled
    /\ <<provider, flag>> \in mcp_config.auto

\* what the gating asks of a result for each of the six actions
Gate(result, a) ==
    CASE a = 1 -> FlagSet("github", "auto_create_pr") /\ result.fixes_applied > 0
      [] a = 2 -> FlagSet("github", "auto_create_issue") /\ result.issues_found > 0
      [] a = 3 -> FlagSet("gitlab", "auto_create_mr") /\ result.fixes_applied > 0
      [] a = 4 -> FlagSet("gitlab", "auto_create_issue") /\ result.issues_found > 0
      [] a = 5 -> FlagSet("linear", "auto_create_issue") /\ result.issues_found > 0
      [] a = 6 -> FlagSet("jira", "auto_create_ticket") /\ result.issues_found > 0

\* C15: whatever an integration action did for a result (raised, failed or
\* succeeded), once the dispatcher is through, every enabled action that
\* applies to a result was attempted for it, and no exception of an action
\* left process_event.
C15_IntegrationIsolation ==
    /\ pe_error # "integration"
    /\ IntegrationsDone =>
           \A k \in 1..Len(results), a \in 1..6 :
               Gate(results[k], a) => Attempts(k, a) >= 1

\* C16: an action is never awaited twice for a result nor awaited when its
\* gate is closed, and once the dispatcher is through it was awaited exactly
\* once for each result whose gate is open; a result with neither issues nor
\* fixes triggers nothing.
C16_IntegrationGating ==
    /\ \A n \in 1..Len(integration_log) :
           /\ integration_log[n].result \in 1..Len(results)
           /\ Gate(results[integration_log[n].result], integration_log[n].action)
           /\ Attempts(integration_log[n].result, integration_log[n].action) = 1
    /\ IntegrationsDone =>
           \A k \in 1..Len(results), a \in 1..6 :
               Attempts(k, a) = IF Gate(results[k], a) THEN 1 ELSE 0

(***************************************************************************)
(* Scan summaries                                                          *)
(***************************************************************************)
\* the sum of a field over the first n results
RECURSIVE FieldTotal(_, _, _)
FieldTotal(res, field, n) ==
    IF n = 0 THEN 0 ELSE FieldTotal(res, field, n - 1) + res[n][field]

\* the place of a path in the file list
ListingIndex(path) == CHOOSE n \in 1..Len(listing) : listing[n] = path

ScanReturned == scan_pc = "done" /\ summary # <<>>

\* C17: the summary scan returns for a non-empty file list counts every
\* listed file, its issues_found and fixes_applied are the sums over the
\* results it holds, and its results are the lists process_event returned,
\* concatenated in the order of the file list.
C17_State ==
    (ScanReturned /\ listing # <<>>) =>
        LET s == summary[1]
        IN  /\ s.status = "success"
            /\ s.files_scanned = Len(listing)
            /\ s.results = all_results
            /\ s.issues_found = FieldTotal(s.results, "issues_found", Len(s.results))
            /\ s.fixes_applied = FieldTotal(s.results, "fixes_applied", Len(s.results))
            /\ \A m, n \in 1..Len(s.results) :
                   m < n => ListingIndex(s.results[m].file_path)
                                <= ListingIndex(s.results[n].file_path)

C17_Step ==
    (scan_pc = "files" /\ pe_pc = "returned" /\ pe_pc' = "idle") =>
        /\ all_results' = all_results \o results
        /\ \A n \in 1..Len(results) : results[n].file_path = files[file_idx]

C17_ScanAggregation == [](C17_State) /\ [][C17_Step]_vars

C17_Witness ==
    /\ ScanReturned
    /\ Len(listing) = 2
    /\ summary[1].files_scanned = 2
    /\ summary[1].issues_found = 1
    /\ summary[1].fixes_applied = 1
    /\ Len(summary[1].results) = 2
    /\ summary[1].results[1].issues_found = 1
    /\ summary[1].results[2].fixes_applied = 1
    /\ \A n \in 1..2 : summary[1].results[n].file_path = listing[1]

\* C18: a scan whose file list is empty returns the zero summary at once and
\* no step of process_event is ever taken: no should_check, no check, no
\* notifier, no integration action.
C18_State ==
    (scan_pc # "idle" /\ listing = <<>>) =>
        /\ scan_pc = "done"
        /\ summary = <<[status |-> "success", files_scanned |-> 0,
                        issues_found |-> 0, fixes_applied |-> 0, results |-> <<>>]>>
        /\ pe_pc = "idle"
        /\ pe_event = <<>>
        /\ should_outcome = <<>> /\ check_outcome = <<>>
        /\ notify_log = <<>> /\ integration_log = <<>>

C18_Step == listing = <<>> => UNCHANGED pe_vars

C18_EmptyScan == [](C18_State) /\ [][C18_Step]_vars

C18_Witness ==
    /\ ScanReturned
    /\ listing = <<>>
    /\ Len(bouncers) = 2
    /\ Len(notifiers) = 2
    /\ integration_actions

(***************************************************************************)
(* Ignore filtering                                                        *)
(***************************************************************************)
\* some configured ignore pattern occurs in the path
MatchesIgnorePattern(path) ==
    \E pattern \in ignore_patterns :
        \E k \in 1..Len(path) :
            /\ k + Len(pattern) - 1 <= Len(path)
            /\ SubSeq(path, k, k + Len(pattern) - 1) = pattern

KnownPaths ==
    WatchPaths \cup {TargetTree[n].path : n \in 1..Len(TargetTree)}
               \cup NamedPaths(git_output)

\* C19: a path that matches an ignore pattern is never pending, whatever
\* notifications arrived, is in neither the full-scan list nor the list
\* built from git's output, and no event for it is ever queued.
C19_IgnoreFiltering ==
    \A path \in KnownPaths :
        MatchesIgnorePattern(path) =>
            /\ path \notin PathsOf(pending_changes)
            /\ path \notin Range(get_all_files)
            /\ path \notin Range(selected)
            /\ \A n \in 1..Len(event_queue) : event_queue[n].path # path
            /\ path \in DOMAIN settled_events => settled_events[path] = <<>>

C19_Witness ==
    /\ sel_pc = "returned"
    /\ git_outcome = "ok"
    /\ IgnoredPath \in NamedPaths(stdout)
    /\ selected = <<FilePath(1)>>
    /\ settled_events[FilePath(1)] # <<>>
    /\ IsPending(FilePath(2))

(***************************************************************************)
(* The dispatch loop                                                       *)
(***************************************************************************)
\* C20: once stop() has cleared the running flag, the dispatch loop takes no
\* further event from the queue and starts no further timed read: it ends
\* at its next test of the flag, whether it was idle in the read, had events
\* queued behind the one in hand, or an event arrives during the read.
C20_State == ~dequeued_after_stop

C20_Step ==
    ~running =>
        /\ Len(event_queue') >= Len(event_queue)
        /\ (loop_pc # "wait" => loop_pc' # "wait")
        /\ (loop_pc = "test" /\ loop_pc' # "test") => loop_pc' = "done"

C20_DispatchShutdown == [](C20_State) /\ [][C20_Step]_vars

\* C22: the push onto the results queue is best-effort: the dispatch loop is
\* never held at the push by a full results queue, so it always goes on to
\* its next test of the running flag and to the next queued event.
C22_State ==
    (loop_pc = "put" /\ running) => Len(results_queue) < results_queue_size

C22_Step ==
    (loop_pc = "put" /\ loop_pc' # "put") =>
        /\ loop_pc' = "test"
        /\ Len(results_queue') <= results_queue_size

C22_ResultBackpressure == [](C22_State) /\ [][C22_Step]_vars

\* C29: the event queue is first-in first-out and each event is consumed
\* once: the queue only grows at its tail and shrinks at its head, the event
\* taken is the one handed to process_event, it stays the event in hand
\* until the loop is through with it, the loop holds at most one event, and
\* while the running flag is set a queued event is not left behind a loop
\* that can take no step.
IsPrefix(a, b) == Len(a) <= Len(b) /\ SubSeq(b, 1, Len(a)) = a

InHand == loop_pc \in {"process", "put"}

C29_State ==
    /\ Len(loop_event) <= 1
    /\ InHand <=> loop_event # <<>>
    /\ (running /\ event_queue # <<>> /\ loop_pc = "put") =>
           Len(results_queue) < results_queue_size

C29_Step ==
    /\ \/ IsPrefix(event_queue, event_queue')
       \/ /\ event_queue # <<>>
          /\ event_queue' = Tail(event_queue)
          /\ ~InHand
          /\ loop_pc' = "process"
          /\ loop_event' = <<Head(event_queue)>>
    /\ (loop_pc' = "process" /\ loop_pc # "process") =>
           event_queue # <<>> /\ event_queue' = Tail(event_queue)
    /\ (InHand /\ InHand') => loop_event' = loop_event
    /\ loop_pc = "put" => loop_pc' # "process"

C29_QueueFifoOnce == [](C29_State) /\ [][C29_Step]_vars

\* C30: a failure of process_event does not end the dispatch loop: the loop
\* goes back to its test of the running flag with the queue as it was, and
\* whenever the loop holds no event, task_done() has been called once for
\* every event it took from the queue.
C30_State == ~InHand => undone_gets = 0

C30_Step ==
    (loop_pc = "process" /\ loop_pc' # "put" /\ loop_pc' # "process") =>
        /\ loop_pc' = "test"
        /\ loop_event' = <<>>
        /\ running' = running

C30_FailureIsolation == [](C30_State) /\ [][C30_Step]_vars

(***************************************************************************)
(* stop()                                                                  *)
(***************************************************************************)
\* C21: once stop() has returned, the watcher is halted whatever the
\* poll_interval: the observer has been stopped, and no later step changes
\* the pending set, runs a sweep or puts an event on the event queue.
C21_State == stop_pc = "returned" => ObserverStopped

C21_Step ==
    stop_pc = "returned" =>
        /\ pending_changes' = pending_changes
        /\ event_queue' = event_queue
        /\ watcher_pc' = watcher_pc

C21_StopHaltsWatcher == [](C21_State) /\ [][C21_Step]_vars

(***************************************************************************)
(* The callback on a path that is pending                                  *)
(***************************************************************************)
\* C26: a raw notification for a path that is already pending removes no
\* pending entry, even with the pending set at max_pending_changes: the
\* set of pending paths and its size are unchanged, the entries of the
\* other paths keep their event type, time and order, and the notified
\* path becomes the most recently touched one with the new type and time.
C26_Step ==
    (now' = now + 1 /\ pending_changes' # <<>>) =>
        LET n == Len(pending_changes')
            p == pending_changes'[n].path
        IN  p \in PathsOf(pending_changes) =>
                /\ PathsOf(pending_changes') = PathsOf(pending_changes)
                /\ n = Len(pending_changes)
                /\ SubSeq(pending_changes', 1, n - 1) =
                       SelectSeq(pending_changes, LAMBDA e : e.path # p)
                /\ pending_changes'[n].timestamp = now

C26_PendingUpdateFrame == [][C26_Step]_vars

(***************************************************************************)
(* The callback beside the sweep                                           *)
(***************************************************************************)
\* C27: whenever the sweep removes a path from the pending set, the entry
\* it keeps for the settled event has the event type and the time of the
\* last notification accepted for that path before the removal: no
\* notification that came after the sweep read the entry is dropped with it.
SweepRemoves(p) ==
    /\ watcher_pc = "scan"
    /\ sweep_i' = sweep_i + 1
    /\ p \in PathsOf(pending_changes) \ PathsOf(pending_changes')

C27_Step ==
    \A p \in PathsOf(pending_changes) :
        SweepRemoves(p) =>
            LET info == sweep_out'[Len(sweep_out')]
            IN  /\ info.path = p
                /\ info.event_type = last_notification[p][1].event_type
                /\ info.timestamp = last_notification[p][1].timestamp

C27_NoLostNotification == [][C27_Step]_vars

\* C28: while the running flag is set the debounce loop neither ends nor
\* fails, whatever the callback does between the sweep's snapshot and its
\* removal of an entry: the loop is never left through an exception and the
\* observer is never stopped.
C28_State == running => watcher_pc \notin {"raised", "done"}

C28_SweepNeverFails == []C28_State

(***************************************************************************)
(* Path validation                                                         *)
(***************************************************************************)
\* C23: validate_file_path returns a path exactly when the argument holds
\* no NUL byte, the allow-list is empty or the resolved path lies under one
\* of its directories, and the resolved path exists and is a regular file;
\* the path returned is then the resolved one, free of "..", of symbolic
\* links and of missing components.  In every other case the call raises
\* and returns no path.
Under(path, dir) == Len(dir) <= Len(path) /\ SubSeq(path, 1, Len(dir)) = dir

Canonical(path) ==
    \A n \in 0..Len(path) :
        /\ SubSeq(path, 1, n) \in DOMAIN FsTree
        /\ FsTree[SubSeq(path, 1, n)].kind # "link"

Validated == guard_call # <<>> /\ guard_call[1].result # <<>>

C23_PathGuard ==
    Validated =>
        LET call == guard_call[1]
            result == call.result[1]
            resolved == Resolve(call.file_path)
            valid ==
                /\ "nul" \notin Range(call.file_path.parts)
                /\ \/ call.allowed_dirs = <<>>
                   \/ \E dir \in Range(call.allowed_dirs) : Under(resolved, dir)
                /\ resolved \in DOMAIN FsTree
                /\ FsTree[resolved].kind = "file"
        IN  IF valid
            THEN result.ok /\ result.path = resolved /\ Canonical(result.path)
            ELSE ~result.ok /\ "path" \notin DOMAIN result

\* a file outside the allow-list, named through a symbolic link inside it,
\* has been rejected
C23_Witness ==
    /\ Validated
    /\ guard_call[1].allowed_dirs = <<<<"in">>>>
    /\ guard_call[1].file_path = PathStr(TRUE, <<"in", "link", "f">>)
    /\ ~guard_call[1].result[1].ok

(***************************************************************************)
(* Hooks                                                                   *)
(***************************************************************************)
\* C24: with hooks globally disabled, whatever the validation and logging
\* sections say, the validation hooks return the empty allow decision for
\* every input, the logging hooks return {} and nothing is written to the
\* audit file, and get_pre_tool_hooks and get_post_tool_hooks return empty
\* lists.
HookCalled == hook_call # <<>> /\ hook_call[1].hook # "none"

C24_DisabledHooks ==
    ~hooks_config.enabled =>
        /\ audit_log = <<>>
        /\ HookCalled =>
               IF hook_call[1].hook \in {"get_pre_tool_hooks", "get_post_tool_hooks"}
               THEN hook_call[1].result = <<>>
               ELSE hook_call[1].result = [permissionDecision |-> "none"]

\* a write to a protected file has been allowed with the hooks disabled and
\* the validation section enabled
C24_Witness ==
    /\ ~hooks_config.enabled
    /\ hooks_config.validation.enabled
    /\ hooks_config.validation.block_protected_files
    /\ HookCalled
    /\ hook_call[1].hook = "validate_before_write"
    /\ hook_call[1].input.tool_name = "Write"
    /\ hook_call[1].input.path \in hooks_config.validation.protected_file_patterns
    /\ hook_call[1].result = [permissionDecision |-> "none"]

\* C25: with the validation hooks enabled and every check switched on,
\* validate_before_write denies a Write whenever the path contains a
\* protected-file pattern, the content contains a secret pattern, the
\* content is longer than the size limit, or the content contains a blocked
\* code pattern; it denies only on such a match (letter case set aside for
\* the path and the secrets); without one it asks when the content contains
\* a warning pattern and allows otherwise; every other tool is allowed.
Contains(text, patterns) ==
    \E pattern \in patterns :
        \E k \in 0..(Len(text) - Len(pattern)) :
            SubSeq(text, k + 1, k + Len(pattern)) = pattern

AnyCase(text) ==
    [i \in 1..Len(text) |->
        IF text[i] = "P" THEN "p" ELSE IF text[i] = "S" THEN "s" ELSE text[i]]

ContainsAnyCase(text, patterns) ==
    Contains(AnyCase(text), {AnyCase(pattern) : pattern \in patterns})

AllChecksOn(v) ==
    /\ v.enabled
    /\ v.block_protected_files
    /\ v.block_hardcoded_secrets
    /\ v.block_dangerous_code

C25_WriteDecision ==
    (/\ HookCalled
     /\ hook_call[1].hook = "validate_before_write"
     /\ hooks_config.enabled
     /\ AllChecksOn(hooks_config.validation)) =>
        LET v == hooks_config.validation
            input_data == hook_call[1].input
            decision == hook_call[1].result.permissionDecision
            too_long == Len(input_data.content) > v.file_size_limit
            blocked == Contains(input_data.content, v.blocked_code_patterns)
            must_deny ==
                \/ Contains(input_data.path, v.protected_file_patterns)
                \/ Contains(input_data.content, v.secret_patterns)
                \/ too_long
                \/ blocked
            may_deny ==
                \/ ContainsAnyCase(input_data.path, v.protected_file_patterns)
                \/ ContainsAnyCase(input_data.content, v.secret_patterns)
                \/ too_long
                \/ blocked
            warned == Contains(input_data.content, v.warning_code_patterns)
        IN  IF input_data.tool_name # "Write" THEN decision = "none"
            ELSE /\ must_deny => decision = "deny"
                 /\ decision = "deny" => may_deny
                 /\ (~may_deny /\ warned) => decision = "ask"
                 /\ (~may_deny /\ ~warned) => decision = "none"
                 /\ decision = "ask" => warned

====
